---- MODULE Spec2Model ----
(***************************************************************************)
(* Model of the PPTX -> PDF/UA conversion pipeline:                         *)
(*   PptxParser (src/src/lib/pptx/parser.ts),                               *)
(*   PptxAiEnhancer (same file, second half),                               *)
(*   AccessibilityValidator (src/unnamed/part_007),                         *)
(*   PdfUaGenerator (src/unnamed/part_008),                                 *)
(*   the conversion route POST (src/src/app/api/convert/pptx-to-pdf-ua).    *)
(*                                                                          *)
(* Strings are TLA+ strings taken from a small vocabulary; an optional      *)
(* string that is `undefined` in the program is the value Undef.  Lengths   *)
(* are pixels after the EMU conversion.  A confidence is the IEEE 754        *)
(* double the program computes, kept as an integer number of units of       *)
(* 2^-56 in two limbs of 28 bits.                                           *)
(***************************************************************************)
EXTENDS Integers, Sequences, FiniteSets, TLC

(***************************************************************************)
(* Bounds of the model                                                      *)
(***************************************************************************)
MaxSlides == 2
MaxClock == 1
MaxIssues == 7
MaxDups == 1

(***************************************************************************)
(* Program constants                                                        *)
(***************************************************************************)
EMU_TO_PX == 9525
ScoreBase == 100
ErrorWeight == 15
WarningWeight == 5
InfoWeight == 1
MaxErrorsForA == 3
RowTolerance == 20
GridTolerance == 30
DefaultMaxImagesPerSlide == 5

(***************************************************************************)
(* JavaScript values                                                        *)
(***************************************************************************)
Undef == "<undefined>"

\* JS truthiness of an optional string
Truthy(s) == s # Undef /\ s # ""

\* a || b on optional strings
OrElse(a, b) == IF Truthy(a) THEN a ELSE b

\* String.prototype.trim over the vocabulary: the whitespace-only strings
\* of the vocabulary are " " and "  "; no other string starts or ends
\* with whitespace.
Trim(s) == IF s \in {" ", "  "} THEN "" ELSE s

\* !s?.trim()
BlankText(s) == s = Undef \/ Trim(s) = ""

Max(a, b) == IF a >= b THEN a ELSE b
Min(a, b) == IF a <= b THEN a ELSE b
Abs(a) == IF a >= 0 THEN a ELSE 0 - a

(***************************************************************************)
(* Doubles.  Every double between 2^-4 and 1 is a whole number of units of  *)
(* 2^-56; Double(hi, lo) is the double of hi * 2^28 + lo units.             *)
(***************************************************************************)
Limb == 2^28

Double(hi, lo) == [hi |-> hi, lo |-> lo]

\* the double a number literal of the program denotes
Literal(text) ==
  CASE text = "1.0" -> Double(268435456, 0)            \* 0x3FF0000000000000
    [] text = "0.95" -> Double(255013683, 53687088)    \* 0x3FEE666666666666
    [] text = "0.9" -> Double(241591910, 107374184)    \* 0x3FECCCCCCCCCCCCD
    [] text = "0.7" -> Double(187904819, 53687088)     \* 0x3FE6666666666666
    [] text = "0.3" -> Double(80530636, 214748364)     \* 0x3FD3333333333333
    [] text = "0.2" -> Double(53687091, 53687092)      \* 0x3FC999999999999A
    [] text = "0.1" -> Double(26843545, 161061274)     \* 0x3FB999999999999A

\* the distance in units between neighbouring doubles at hi * 2^28 units:
\* 53 significant bits
Quantum(hi) ==
  IF hi >= 2^27 THEN 8 ELSE IF hi >= 2^26 THEN 4 ELSE IF hi >= 2^25 THEN 2 ELSE 1

\* the double nearest to hi * 2^28 + lo units, a tie going to the double
\* with an even significand
RoundToDouble(hi, lo) ==
  LET q == Quantum(hi)
      r == lo % q
      down == lo - r
      rounded == IF 2 * r < q THEN down
                 ELSE IF 2 * r > q THEN down + q
                 ELSE IF (down \div q) % 2 = 0 THEN down
                 ELSE down + q
  IN IF rounded = Limb THEN Double(hi + 1, 0) ELSE Double(hi, rounded)

\* a - b of two doubles, a >= b: the exact difference, rounded
DoubleSub(a, b) ==
  IF a.lo >= b.lo THEN RoundToDouble(a.hi - b.hi, a.lo - b.lo)
  ELSE RoundToDouble(a.hi - b.hi - 1, a.lo + Limb - b.lo)

\* a < b
DoubleLess(a, b) == a.hi < b.hi \/ (a.hi = b.hi /\ a.lo < b.lo)

\* Math.max(a, b)
DoubleMax(a, b) == IF DoubleLess(a, b) THEN b ELSE a

ConfidenceThreshold == Literal("0.7")

\* Math.round(v / d) for v >= 0, d > 0 (round half up)
RoundDiv(v, d) == (2 * v + d) \div (2 * d)

RECURSIVE SeqSum(_)
SeqSum(s) == IF s = <<>> THEN 0 ELSE Head(s) + SeqSum(Tail(s))

RECURSIVE Concat(_)
\* [].concat(...seqs)
Concat(ss) == IF ss = <<>> THEN <<>> ELSE Head(ss) \o Concat(Tail(ss))

Reverse(s) == [i \in DOMAIN s |-> s[Len(s) + 1 - i]]

\* sequences over S of length 0..n
SeqsUpTo(S, n) == UNION {[1..k -> S] : k \in 0..n}

(***************************************************************************)
(* Element ids.  An id is the `id` attribute of the node, or a string       *)
(* built from Date.now() when the attribute is absent, or the id of a       *)
(* generated title.                                                         *)
(***************************************************************************)
NoElem == [src |-> "none", n |-> 0]
AttrId(n) == [src |-> "attr", n |-> n]
ClockId(prefix, t) == [src |-> prefix, n |-> t]

(***************************************************************************)
(* Issues.  The id string of an issue is the record of its parts:           *)
(*   `slide-${slide}-${e1}-${tag}`, `slide-${n}-overlap-${e1}-${e2}`,       *)
(*   `issue-${e1}-${tag}`, `issue-slide-${slide}-${tag}`, `doc-${tag}`.     *)
(***************************************************************************)
IssueId(ns, slide, e1, e2, tag) ==
  [ns |-> ns, slide |-> slide, e1 |-> e1, e2 |-> e2, tag |-> tag]

\* message stands for the pair (message, messageDE) of the creating site:
\* its text and the value interpolated into it; wcag is "" when the site
\* sets no wcagCriteria; slide 0 and NoElem stand for an absent locator.
Msg(text, arg) == [text |-> text, arg |-> arg]

Issue(id, type, severity, slide, elem, autoFixable, message, wcag) ==
  [id |-> id, type |-> type, severity |-> severity, slideNumber |-> slide,
   elementId |-> elem, autoFixable |-> autoFixable, message |-> message,
   wcagCriteria |-> wcag]

(***************************************************************************)
(* The input package: docProps metadata and, per declared slide, the nodes  *)
(* of its shape tree in document order.  A node is a p:sp, p:pic,           *)
(* p:graphicFrame (chart, smartart, tbl) or p:grpSp (with child nodes).     *)
(***************************************************************************)
RawNode(tag, idAttr, ph, name, text, descr, decor, x, y, cx, cy, link) ==
  [tag |-> tag, idAttr |-> idAttr, ph |-> ph, name |-> name, text |-> text,
   descr |-> descr, titleAttr |-> Undef, decor |-> decor,
   x |-> x * EMU_TO_PX, y |-> y * EMU_TO_PX,
   cx |-> cx * EMU_TO_PX, cy |-> cy * EMU_TO_PX,
   link |-> link, kids |-> <<>>, rows |-> <<>>]

RawGroup(idAttr, kids) ==
  [RawNode("grpSp", idAttr, "", "", "", Undef, FALSE, 0, 0, 0, 0, FALSE)
     EXCEPT !.kids = kids]

RawTable(idAttr, x, y, rows) ==
  [RawNode("tbl", idAttr, "", "", "", Undef, FALSE, x, y, 400, 100, FALSE)
     EXCEPT !.rows = rows]

(***************************************************************************)
(* PptxParser                                                               *)
(***************************************************************************)

\* name.toLowerCase().includes(part), over the vocabulary of shape names
NameIncludes(name, part) ==
  CASE part = "title" -> name \in {"Title 1", "Subtitle 2"}
    [] part = "subtitle" -> name = "Subtitle 2"
    [] part = "content" -> name = "Content Placeholder 3"
    [] part = "body" -> name = "Body 4"
    [] OTHER -> FALSE

mapPlaceholderToType(phType, name) ==
  CASE phType \in {"title", "ctrTitle"} -> "title"
    [] phType = "subTitle" -> "subtitle"
    [] phType = "body" -> "body"
    [] phType = "dt" -> "date"
    [] phType = "ftr" -> "footer"
    [] phType = "sldNum" -> "slideNumber"
    [] OTHER ->
         IF NameIncludes(name, "title") THEN "title"
         ELSE IF NameIncludes(name, "subtitle") THEN "subtitle"
         ELSE IF NameIncludes(name, "content") \/ NameIncludes(name, "body")
              THEN "body"
         ELSE "textbox"

\* parseInt(attr) / EMU_TO_PX; the packages of the model hold whole pixels
extractPosition(node) ==
  [x |-> node.x \div EMU_TO_PX, y |-> node.y \div EMU_TO_PX,
   width |-> node.cx \div EMU_TO_PX, height |-> node.cy \div EMU_TO_PX]

extractAltText(node) ==
  [altText |-> OrElse(node.descr, node.titleAttr),
   isDecorative |-> node.decor \/ node.descr = "" \/ node.descr = " "]

determineAltTextStatus(altText, isDecorative) ==
  IF isDecorative THEN "decorative"
  ELSE IF ~Truthy(altText) THEN "missing"
  ELSE IF Trim(altText) = "" THEN "missing"
  ELSE "present"

NoTable == [rows |-> 0, columns |-> 0, cells |-> <<>>,
            hasHeaderRow |-> FALSE, hasHeaderColumn |-> FALSE, present |-> FALSE]

Element(id, type, text, alt, status, decorative, pos, link, issues, tableData) ==
  [id |-> id, type |-> type, text |-> text, altText |-> alt,
   altTextStatus |-> status, isDecorative |-> decorative,
   isGrouped |-> FALSE, groupId |-> NoElem, hyperlink |-> link,
   position |-> pos, issues |-> issues, tableData |-> tableData]

parseShape(node, slideNumber, t) ==
  LET id == IF node.idAttr # 0 THEN AttrId(node.idAttr) ELSE ClockId("shape", t)
      elementType == mapPlaceholderToType(node.ph, node.name)
      alt == extractAltText(node)
      issues ==
        IF elementType = "title" /\ Trim(node.text) = ""
        THEN <<Issue(IssueId("issue", 0, id, NoElem, "empty-title"),
                     "missing_title", "error", slideNumber, id, FALSE,
                     Msg("Slide title is empty", ""), "2.4.2")>>
        ELSE <<>>
  IN Element(id, elementType, node.text, alt.altText,
             determineAltTextStatus(alt.altText, alt.isDecorative),
             alt.isDecorative, extractPosition(node), node.link, issues, NoTable)

parsePicture(node, slideNumber, t) ==
  LET id == IF node.idAttr # 0 THEN AttrId(node.idAttr) ELSE ClockId("pic", t)
      alt == extractAltText(node)
      altTextStatus == determineAltTextStatus(alt.altText, alt.isDecorative)
      issues ==
        IF altTextStatus = "missing" /\ ~alt.isDecorative
        THEN <<Issue(IssueId("issue", 0, id, NoElem, "missing-alt"),
                     "missing_alt_text", "error", slideNumber, id, FALSE,
                     Msg("Image is missing alt text", node.name), "1.1.1")>>
        ELSE <<>>
  IN Element(id, "image", Undef, alt.altText, altTextStatus,
             alt.isDecorative, extractPosition(node), FALSE, issues, NoTable)

parseTable(node, id, slideNumber) ==
  LET cells == [r \in DOMAIN node.rows |->
                  [c \in DOMAIN node.rows[r] |->
                     [content |-> node.rows[r][c], isHeader |-> r = 1]]]
      hasHeaderRow == node.rows # <<>> /\ node.rows[1] # <<>>
      tableData == [rows |-> Len(node.rows),
                    columns |-> IF node.rows = <<>> THEN 0 ELSE Len(node.rows[1]),
                    cells |-> cells, hasHeaderRow |-> hasHeaderRow,
                    hasHeaderColumn |-> FALSE, present |-> TRUE]
      issues ==
        IF ~hasHeaderRow /\ Len(node.rows) > 1
        THEN <<Issue(IssueId("issue", 0, id, NoElem, "no-header"),
                     "table_missing_headers", "warning", slideNumber, id, TRUE,
                     Msg("Table has no header row defined", ""), "1.3.1")>>
        ELSE <<>>
  IN Element(id, "table", Undef, Undef, "present", FALSE,
             extractPosition(node), FALSE, issues, tableData)

parseChart(node, id, slideNumber) ==
  LET alt == extractAltText(node)
      issues ==
        IF ~Truthy(alt.altText) /\ ~alt.isDecorative
        THEN <<Issue(IssueId("issue", 0, id, NoElem, "chart-alt"),
                     "missing_alt_text", "error", slideNumber, id, FALSE,
                     Msg("Chart is missing alt text", ""), "1.1.1")>>
        ELSE <<>>
  IN Element(id, "chart", Undef, alt.altText,
             determineAltTextStatus(alt.altText, alt.isDecorative),
             alt.isDecorative, extractPosition(node), FALSE, issues, NoTable)

parseSmartArt(node, id, slideNumber) ==
  LET alt == extractAltText(node)
      issues == <<Issue(IssueId("issue", 0, id, NoElem, "smartart"),
                        "flattened_content", "warning", slideNumber, id, FALSE,
                        Msg("SmartArt may lose structure when converted", ""), "")>>
  IN Element(id, "smartart", Undef, alt.altText,
             determineAltTextStatus(alt.altText, alt.isDecorative),
             alt.isDecorative, extractPosition(node), FALSE, issues, NoTable)

parseGraphicFrame(node, slideNumber, t) ==
  LET id == IF node.idAttr # 0 THEN AttrId(node.idAttr) ELSE ClockId("gf", t)
  IN CASE node.tag = "tbl" -> parseTable(node, id, slideNumber)
       [] node.tag = "chart" -> parseChart(node, id, slideNumber)
       [] node.tag = "smartart" -> parseSmartArt(node, id, slideNumber)

IsSp(n) == n.tag = "sp"
IsPic(n) == n.tag = "pic"
IsGf(n) == n.tag \in {"tbl", "chart", "smartart"}
IsGrp(n) == n.tag = "grpSp"

\* the elements of a group: its shapes, then its pictures; the first one
\* carries the reading-order note of the group
parseGroup(grp, slideNumber, t) ==
  LET groupId == IF grp.idAttr # 0 THEN AttrId(grp.idAttr) ELSE ClockId("grp", t)
      shapes == SelectSeq(grp.kids, IsSp)
      pics == SelectSeq(grp.kids, IsPic)
      mark(e) == [e EXCEPT !.isGrouped = TRUE, !.groupId = groupId]
      elements ==
        [i \in DOMAIN shapes |-> mark(parseShape(shapes[i], slideNumber, t))]
        \o [i \in DOMAIN pics |-> mark(parsePicture(pics[i], slideNumber, t))]
      note == Issue(IssueId("issue", 0, groupId, NoElem, "order"),
                    "grouped_content_order", "info", slideNumber, groupId, FALSE,
                    Msg("Grouped elements - verify reading order is correct", ""), "")
  IN IF Len(elements) > 1
     THEN [elements EXCEPT ![1].issues = @ \o <<note>>]
     ELSE elements

\* the comparator of calculateReadingOrder
compareReadingOrder(a, b) ==
  IF a.type = "title" /\ b.type # "title" THEN -1
  ELSE IF b.type = "title" /\ a.type # "title" THEN 1
  ELSE IF a.type = "subtitle" /\ b.type # "subtitle" /\ b.type # "title" THEN -1
  ELSE IF b.type = "subtitle" /\ a.type # "subtitle" /\ a.type # "title" THEN 1
  ELSE IF Abs(a.position.y - b.position.y) > RowTolerance
       THEN a.position.y - b.position.y
  ELSE a.position.x - b.position.x

RECURSIVE InsertByOrder(_, _)
\* one step of the stable insertion sort Array.prototype.sort performs on
\* short arrays: e moves left past every entry that compares greater
InsertByOrder(sorted, e) ==
  IF sorted = <<>> THEN <<e>>
  ELSE IF compareReadingOrder(sorted[Len(sorted)], e) > 0
       THEN InsertByOrder(SubSeq(sorted, 1, Len(sorted) - 1), e)
            \o <<sorted[Len(sorted)]>>
  ELSE sorted \o <<e>>

RECURSIVE SortByOrder(_)
SortByOrder(elements) ==
  IF elements = <<>> THEN <<>>
  ELSE InsertByOrder(SortByOrder(SubSeq(elements, 1, Len(elements) - 1)),
                     elements[Len(elements)])

Overlap(a, b) ==
  /\ a.x < b.x + b.width /\ a.x + a.width > b.x
  /\ a.y < b.y + b.height /\ a.y + a.height > b.y

checkForOverlaps(elements) ==
  \E i, j \in DOMAIN elements :
     i < j /\ Overlap(elements[i].position, elements[j].position)

calculateReadingOrder(elements) ==
  LET sorted == SortByOrder(elements)
      hasOverlap == checkForOverlaps(elements)
      hasGroups == \E i \in DOMAIN elements : elements[i].isGrouped
      yPositions == {RoundDiv(elements[i].position.y, RowTolerance) :
                       i \in DOMAIN elements}
      afterOverlap == IF hasOverlap
                      THEN DoubleSub(Literal("1.0"), Literal("0.2"))
                      ELSE Literal("1.0")
      afterGroups == IF hasGroups THEN DoubleSub(afterOverlap, Literal("0.1"))
                     ELSE afterOverlap
      confidence == IF 2 * Cardinality(yPositions) < Len(elements)
                    THEN DoubleSub(afterGroups, Literal("0.2"))
                    ELSE afterGroups
  IN [readingOrder |-> [i \in DOMAIN sorted |-> sorted[i].id],
      confidence |-> DoubleMax(Literal("0.3"), confidence)]

IsTextbox(e) == e.type = "textbox"
GridBand(e) == RoundDiv(e.position.y, GridTolerance) * GridTolerance

\* the sizes of the row bands, in the order the bands were first met
RowSizes(textboxes) ==
  LET firstOfBand(i) ==
        \A j \in 1..(i - 1) : GridBand(textboxes[j]) # GridBand(textboxes[i])
      IsFirst(i) == firstOfBand(i)
      firsts == SelectSeq([i \in DOMAIN textboxes |-> i], IsFirst)
      sizeOf(i) == Cardinality({j \in DOMAIN textboxes :
                                  GridBand(textboxes[j]) = GridBand(textboxes[i])})
  IN [k \in DOMAIN firsts |-> sizeOf(firsts[k])]

detectPseudoTable(textboxes) ==
  IF Len(textboxes) < 4 THEN FALSE
  ELSE LET rowSizes == RowSizes(textboxes)
           allSameSize == \A k \in DOMAIN rowSizes : rowSizes[k] = rowSizes[1]
           atLeastTwoRowsAndCols == Len(rowSizes) >= 2 /\ rowSizes[1] >= 2
       IN allSameSize /\ atLeastTwoRowsAndCols

HasTitleText(elements) ==
  \E i \in DOMAIN elements :
     elements[i].type = "title" /\ ~BlankText(elements[i].text)

\* PptxParser.validateSlide: the issues list of the slide
parserValidateSlide(elements, slideNumber) ==
  LET noTitle ==
        IF ~HasTitleText(elements)
        THEN <<Issue(IssueId("issue-slide", slideNumber, NoElem, NoElem, "no-title"),
                     "missing_title", "warning", slideNumber, NoElem, FALSE,
                     Msg("Slide has no title", ""), "2.4.2")>>
        ELSE <<>>
      textboxes == SelectSeq(elements, IsTextbox)
      pseudo ==
        IF Len(textboxes) >= 4 /\ detectPseudoTable(textboxes)
        THEN <<Issue(IssueId("issue-slide", slideNumber, NoElem, NoElem, "pseudo-table"),
                     "pseudo_table", "warning", slideNumber, NoElem, FALSE,
                     Msg("Textboxes arranged like a table detected", ""), "")>>
        ELSE <<>>
  IN noTitle \o pseudo \o Concat([i \in DOMAIN elements |-> elements[i].issues])

NotDecorative(e) == ~e.isDecorative
Decorative(e) == e.isDecorative

parseSlide(nodes, slideNumber, t) ==
  LET rawShapes == SelectSeq(nodes, IsSp)
      rawPics == SelectSeq(nodes, IsPic)
      rawFrames == SelectSeq(nodes, IsGf)
      rawGroups == SelectSeq(nodes, IsGrp)
      shapes == [i \in DOMAIN rawShapes |-> parseShape(rawShapes[i], slideNumber, t)]
      pics == [i \in DOMAIN rawPics |-> parsePicture(rawPics[i], slideNumber, t)]
      frames == [i \in DOMAIN rawFrames |->
                   parseGraphicFrame(rawFrames[i], slideNumber, t)]
      groups == Concat([i \in DOMAIN rawGroups |->
                          parseGroup(rawGroups[i], slideNumber, t)])
      elements == SelectSeq(shapes, NotDecorative) \o SelectSeq(pics, NotDecorative)
                  \o frames \o groups
      backgroundElements == SelectSeq(shapes, Decorative) \o SelectSeq(pics, Decorative)
      order == calculateReadingOrder(elements)
  IN [number |-> slideNumber, elements |-> elements,
      readingOrder |-> order.readingOrder,
      readingOrderConfidence |-> order.confidence,
      backgroundElements |-> backgroundElements,
      issues |-> parserValidateSlide(elements, slideNumber)]

\* one slide per position i of the slide list whose part slide<i>.xml
\* exists; the parts the entries of the list refer to are not looked up
parseSlides(pkg, t) ==
  IF ~pkg.hasPresentationXml THEN <<>>
  ELSE LET Exists(i) == i \in DOMAIN pkg.slides /\ pkg.slides[i].exists
           present == SelectSeq([i \in DOMAIN pkg.sldIdLst |-> i], Exists)
       IN [k \in DOMAIN present |->
             parseSlide(pkg.slides[present[k]].nodes, present[k], t)]

parseMetadata(pkg) ==
  [title |-> OrElse(OrElse(pkg.meta.dcTitle, ""), OrElse(pkg.meta.appTitle, "")),
   author |-> OrElse(pkg.meta.dcCreator, ""),
   language |-> OrElse(pkg.meta.dcLanguage, "de")]

calculateStats(slides) ==
  LET all == Concat([k \in DOMAIN slides |-> slides[k].elements])
      IsImg(e) == e.type \in {"image", "chart"}
      ImgDecor(e) == IsImg(e) /\ e.isDecorative
      ImgWith(e) == IsImg(e) /\ ~e.isDecorative /\ e.altTextStatus = "present"
      ImgWithout(e) == IsImg(e) /\ ~e.isDecorative /\ e.altTextStatus # "present"
      IsTable(e) == e.type = "table"
      IsList(e) == e.type = "list"
      IsLink(e) == e.hyperlink
  IN [totalElements |-> Len(all),
      imagesWithAltText |-> Len(SelectSeq(all, ImgWith)),
      imagesWithoutAltText |-> Len(SelectSeq(all, ImgWithout)),
      decorativeImages |-> Len(SelectSeq(all, ImgDecor)),
      tables |-> Len(SelectSeq(all, IsTable)),
      lists |-> Len(SelectSeq(all, IsList)),
      links |-> Len(SelectSeq(all, IsLink))]

collectGlobalIssues(metadata) ==
  (IF BlankText(metadata.title)
   THEN <<Issue(IssueId("issue-global", 0, NoElem, NoElem, "no-title"),
                "missing_document_title", "error", 0, NoElem, TRUE,
                Msg("Document has no title", ""), "2.4.2")>>
   ELSE <<>>)
  \o
  (IF ~Truthy(metadata.language) \/ metadata.language = "und"
   THEN <<Issue(IssueId("issue-global", 0, NoElem, NoElem, "no-language"),
                "missing_language", "error", 0, NoElem, TRUE,
                Msg("Document language is not set", ""), "3.1.1")>>
   ELSE <<>>)

\* PptxParser.parse on a readable package, Date.now() reading t
parse(pkg, t) ==
  LET metadata == parseMetadata(pkg)
      slides == parseSlides(pkg, t)
  IN [metadata |-> metadata, slides |-> slides,
      issues |-> collectGlobalIssues(metadata),
      stats |-> calculateStats(slides)]

(***************************************************************************)
(* AccessibilityValidator                                                   *)
(***************************************************************************)

\* String.prototype.toLowerCase over the vocabulary
Lower(s) ==
  CASE s = "Bild" -> "bild"
    [] s = "Click Here" -> "click here"
    [] s = "Logo der Firma" -> "logo der firma"
    [] s = "Quartalsbericht" -> "quartalsbericht"
    [] s = "Umsatz" -> "umsatz"
    [] s = "Neuer Titel" -> "neuer titel"
    [] s = "Foto.PNG" -> "foto.png"
    [] OTHER -> s

\* String.prototype.length over the vocabulary of language tags
LangLength(s) ==
  CASE s = "" -> 0
    [] s = "x" -> 1
    [] s \in {"de", "en"} -> 2
    [] OTHER -> 3

\* /\.(jpg|jpeg|png|gif|bmp|svg|webp)$/i on a lowered string of the vocabulary
EndsInImageExtension(lowered) == lowered \in {"image.jpg", "foto.png"}

\* the generic one-word patterns
GenericLabel(lowered) ==
  lowered \in {"bild", "image", "foto", "photo", "grafik", "graphic",
               "diagramm", "chart", "logo", "icon", "screenshot",
               "img", "img1", "picture", "picture1", "untitled", "placeholder"}

\* lowered.split(/\s+/).length over the vocabulary
WordCount(lowered) ==
  CASE lowered \in {"logo der firma"} -> 3
    [] lowered \in {"neuer titel", "click here"} -> 2
    [] OTHER -> 1

isLowQualityAltText(altText) ==
  LET lowered == Trim(Lower(altText))
  IN \/ EndsInImageExtension(lowered)
     \/ GenericLabel(lowered)
     \/ WordCount(lowered) < 2

validateDocument(metadata) ==
  (IF BlankText(metadata.title)
   THEN <<Issue(IssueId("doc", 0, NoElem, NoElem, "no-title"),
                "missing_document_title", "error", 0, NoElem, TRUE,
                Msg("Document title is missing", ""), "2.4.2")>>
   ELSE <<>>)
  \o
  (IF ~Truthy(metadata.language) \/ metadata.language = "und"
      \/ LangLength(metadata.language) < 2
   THEN <<Issue(IssueId("doc", 0, NoElem, NoElem, "no-language"),
                "missing_language", "error", 0, NoElem, TRUE,
                Msg("Document language is not defined", ""), "3.1.1")>>
   ELSE <<>>)
  \o
  (IF BlankText(metadata.author)
   THEN <<Issue(IssueId("doc", 0, NoElem, NoElem, "no-author"),
                "missing_metadata", "info", 0, NoElem, FALSE,
                Msg("Document author is not set", ""), "")>>
   ELSE <<>>)

validateSlideTitle(slide) ==
  IF ~HasTitleText(slide.elements)
  THEN <<Issue(IssueId("slide", slide.number, NoElem, NoElem, "no-title"),
               "missing_title", "warning", slide.number, NoElem, FALSE,
               Msg("Slide ${n} has no title", ""), "2.4.2")>>
  ELSE <<>>

\* the pairs (i, j), i < j, of overlapping elements in the order of the
\* nested loops
findOverlappingElements(elements) ==
  LET n == Len(elements)
      pairAt(k) == <<((k - 1) \div n) + 1, ((k - 1) % n) + 1>>
      Hit(k) == /\ pairAt(k)[1] < pairAt(k)[2]
                /\ Overlap(elements[pairAt(k)[1]].position,
                           elements[pairAt(k)[2]].position)
      hits == SelectSeq([k \in 1..(n * n) |-> k], Hit)
  IN [h \in DOMAIN hits |-> pairAt(hits[h])]

validateReadingOrder(slide) ==
  LET overlaps == findOverlappingElements(slide.elements)
  IN (IF DoubleLess(slide.readingOrderConfidence, ConfidenceThreshold)
      THEN <<Issue(IssueId("slide", slide.number, NoElem, NoElem, "order-uncertain"),
                   "reading_order_unclear", "warning", slide.number, NoElem, FALSE,
                   Msg("Reading order on slide ${n} may be incorrect", ""), "1.3.2")>>
      ELSE <<>>)
     \o
     [h \in DOMAIN overlaps |->
        LET elem1 == slide.elements[overlaps[h][1]]
            elem2 == slide.elements[overlaps[h][2]]
        IN Issue(IssueId("slide", slide.number, elem1.id, elem2.id, "overlap"),
                 "overlapping_elements", "info", slide.number, elem1.id, FALSE,
                 Msg("Elements overlap", ""), "1.3.2")]

TypeName(type) ==
  CASE type = "image" -> "Image"
    [] type = "chart" -> "Chart"
    [] type = "smartart" -> "SmartArt"
    [] type = "table" -> "Table"
    [] OTHER -> "Element"

validateImageAltText(element, slideNumber) ==
  IF element.isDecorative THEN <<>>
  ELSE IF element.altTextStatus = "missing" \/ BlankText(element.altText)
  THEN <<Issue(IssueId("slide", slideNumber, element.id, NoElem, "no-alt"),
               "missing_alt_text", "error", slideNumber, element.id, FALSE,
               Msg("is missing alt text", TypeName(element.type)), "1.1.1")>>
  ELSE IF Truthy(element.altText) /\ isLowQualityAltText(element.altText)
  THEN <<Issue(IssueId("slide", slideNumber, element.id, NoElem, "poor-alt"),
               "insufficient_alt_text", "warning", slideNumber, element.id, FALSE,
               Msg("Alt text may not be sufficiently descriptive", ""), "1.1.1")>>
  ELSE <<>>

validateTableStructure(element, slideNumber) ==
  LET tableData == element.tableData
      emptyCellCount ==
        SeqSum([r \in DOMAIN tableData.cells |->
                  Cardinality({c \in DOMAIN tableData.cells[r] :
                                 Trim(tableData.cells[r][c].content) = ""})])
  IN IF ~tableData.present THEN <<>>
     ELSE
       (IF ~tableData.hasHeaderRow /\ ~tableData.hasHeaderColumn /\ tableData.rows > 1
        THEN <<Issue(IssueId("slide", slideNumber, element.id, NoElem, "no-header"),
                     "table_missing_headers", "warning", slideNumber, element.id, TRUE,
                     Msg("Table has no defined header row or column", ""), "1.3.1")>>
        ELSE <<>>)
       \o
       (IF emptyCellCount > 0
        THEN <<Issue(IssueId("slide", slideNumber, element.id, NoElem, "empty-cells"),
                     "table_empty_cells", "info", slideNumber, element.id, FALSE,
                     Msg("Table has empty cells", ""), "1.3.1")>>
        ELSE <<>>)

UnclearLinkText(text) ==
  Lower(text) \in {"hier", "klick", "click here", "more", "mehr", "link",
                   "read more", "weiterlesen", "details"}

validateLink(element, slideNumber) ==
  LET text == IF element.text = Undef THEN "" ELSE Trim(element.text)
  IN IF UnclearLinkText(text)
     THEN <<Issue(IssueId("slide", slideNumber, element.id, NoElem, "unclear-link"),
                  "unclear_link_text", "warning", slideNumber, element.id, FALSE,
                  Msg("Link text is not descriptive", text), "2.4.4")>>
     ELSE <<>>

validateElement(element, slideNumber) ==
  (IF element.type \in {"image", "chart", "smartart"}
   THEN validateImageAltText(element, slideNumber) ELSE <<>>)
  \o
  (IF element.type = "table"
   THEN validateTableStructure(element, slideNumber) ELSE <<>>)
  \o
  (IF element.hyperlink THEN validateLink(element, slideNumber) ELSE <<>>)
  \o
  (IF element.type \in {"body", "textbox"} /\ BlankText(element.text)
      /\ ~element.isDecorative
   THEN <<Issue(IssueId("slide", slideNumber, element.id, NoElem, "empty"),
                "empty_element", "info", slideNumber, element.id, TRUE,
                Msg("Empty text element that is not marked as decorative", ""), "")>>
   ELSE <<>>)

validatePseudoTables_AnyRows(slide) ==
  LET textboxes == SelectSeq(slide.elements, IsTextbox)
      rowSizes == RowSizes(textboxes)
      hasMultipleRowsAndCols == Len(rowSizes) >= 2 /\ rowSizes[1] >= 2
  IN IF Len(textboxes) < 4 THEN <<>>
     ELSE IF hasMultipleRowsAndCols
     THEN <<Issue(IssueId("slide", slide.number, NoElem, NoElem, "pseudo-table"),
                  "pseudo_table", "warning", slide.number, NoElem, FALSE,
                  Msg("Text boxes arranged like a table detected", ""), "1.3.1")>>
     ELSE <<>>

validatePseudoTables(slide) ==
  LET textboxes == SelectSeq(slide.elements, IsTextbox)
      rowSizes == RowSizes(textboxes)
      allSameSize == Len(rowSizes) > 1
                     /\ \A k \in DOMAIN rowSizes : rowSizes[k] = rowSizes[1]
      hasMultipleRowsAndCols == Len(rowSizes) >= 2 /\ rowSizes[1] >= 2
  IN IF Len(textboxes) < 4 THEN <<>>
     ELSE IF allSameSize /\ hasMultipleRowsAndCols
     THEN <<Issue(IssueId("slide", slide.number, NoElem, NoElem, "pseudo-table"),
                  "pseudo_table", "warning", slide.number, NoElem, FALSE,
                  Msg("Text boxes arranged like a table detected", ""), "1.3.1")>>
     ELSE <<>>

validateBackgroundElement(element, slideNumber) ==
  IF element.type = "image" /\ ~element.isDecorative
  THEN <<Issue(IssueId("slide-bg", slideNumber, element.id, NoElem, "not-decorative"),
               "background_not_decorative", "info", slideNumber, element.id, TRUE,
               Msg("Background image should be marked as decorative", ""), "")>>
  ELSE <<>>

\* AccessibilityValidator.validateSlide
validateSlide(slide) ==
  validateSlideTitle(slide)
  \o validateReadingOrder(slide)
  \o Concat([i \in DOMAIN slide.elements |->
               validateElement(slide.elements[i], slide.number)])
  \o validatePseudoTables(slide)
  \o Concat([i \in DOMAIN slide.backgroundElements |->
               validateBackgroundElement(slide.backgroundElements[i], slide.number)])

collectPresentationIssues(presentation) ==
  presentation.issues
  \o Concat([k \in DOMAIN presentation.slides |->
               presentation.slides[k].issues
               \o Concat([i \in DOMAIN presentation.slides[k].elements |->
                            presentation.slides[k].elements[i].issues])])

\* this.issues when validate reaches generateReport
collectedIssues(presentation) ==
  validateDocument(presentation.metadata)
  \o Concat([k \in DOMAIN presentation.slides |->
               validateSlide(presentation.slides[k])])
  \o collectPresentationIssues(presentation)

RECURSIVE FilterUnseen(_, _)
\* issues.filter(issue => !seen.has(issue.id) && seen.add(issue.id))
FilterUnseen(issues, seen) ==
  IF issues = <<>> THEN <<>>
  ELSE IF Head(issues).id \in seen
  THEN FilterUnseen(Tail(issues), seen)
  ELSE <<Head(issues)>> \o FilterUnseen(Tail(issues), seen \cup {Head(issues).id})

\* a deduplication through a map keyed by id, which keeps the last issue
\* of an id at the place of the last
deduplicateIssues_KeepLast(issues) ==
  Reverse(FilterUnseen(Reverse(issues), {}))

\* keeps, of the issues with one id, the first
deduplicateIssues(issues) ==
  FilterUnseen(issues, {})

\* a score without the floor
calculateScore_NoFloor(errors, warnings, infos) ==
  ScoreBase - errors * ErrorWeight - warnings * WarningWeight - infos * InfoWeight

calculateScore(errors, warnings, infos) ==
  Max(0, ScoreBase - errors * ErrorWeight - warnings * WarningWeight
           - infos * InfoWeight)

\* the minimal level granted to fewer than three errors only
determineConformance_Strict(errors, warnings) ==
  IF errors = 0 /\ warnings = 0
  THEN [wcagLevel |-> "AAA", pdfuaLevel |-> "PDF/UA-1", bitvConformant |-> TRUE]
  ELSE IF errors = 0
  THEN [wcagLevel |-> "AA", pdfuaLevel |-> "PDF/UA-1", bitvConformant |-> TRUE]
  ELSE IF errors < MaxErrorsForA
  THEN [wcagLevel |-> "A", pdfuaLevel |-> "partial", bitvConformant |-> FALSE]
  ELSE [wcagLevel |-> "none", pdfuaLevel |-> "none", bitvConformant |-> FALSE]

determineConformance(errors, warnings) ==
  IF errors = 0 /\ warnings = 0
  THEN [wcagLevel |-> "AAA", pdfuaLevel |-> "PDF/UA-1", bitvConformant |-> TRUE]
  ELSE IF errors = 0
  THEN [wcagLevel |-> "AA", pdfuaLevel |-> "PDF/UA-1", bitvConformant |-> TRUE]
  ELSE IF errors <= MaxErrorsForA
  THEN [wcagLevel |-> "A", pdfuaLevel |-> "partial", bitvConformant |-> FALSE]
  ELSE [wcagLevel |-> "none", pdfuaLevel |-> "none", bitvConformant |-> FALSE]

IsError(i) == i.severity = "error"
IsWarning(i) == i.severity = "warning"
IsInfo(i) == i.severity = "info"
IsAutoFixable(i) == i.autoFixable

\* one line of a text report
Line(kind, text, arg, n, m) ==
  [kind |-> kind, text |-> text, arg |-> arg, n |-> n, m |-> m]

\* the lines of one issue in a section of the text report
IssueLines(issue, withWcag, german) ==
  <<Line("bullet", issue.message.text, issue.message.arg, 0, 0)>>
  \o (IF issue.slideNumber # 0
      THEN <<Line("slide", "", "", issue.slideNumber, 0)>> ELSE <<>>)
  \o (IF withWcag /\ issue.wcagCriteria # ""
      THEN <<Line("wcag", issue.wcagCriteria, "", 0, 0)>> ELSE <<>>)
  \o (IF german THEN <<Line("suggestion", issue.message.text, "", 0, 0)>> ELSE <<>>)
  \o <<Line("blank", "", "", 0, 0)>>

\* generateSummary (german = FALSE) and generateSummaryDE (german = TRUE);
\* date is the rendering of new Date(): the instant in the English text,
\* the calendar day in the German one
summaryLines(title, date, errors, warnings, issues, german) ==
  LET errorIssues == SelectSeq(issues, IsError)
      warningIssues == SelectSeq(issues, IsWarning)
  IN <<Line("heading", "", "", 0, 0),
       Line("document", OrElse(title, IF german THEN "Ohne Titel" ELSE "Untitled"),
            "", 0, 0),
       Line("date", "", "", date, 0)>>
     \o (IF errors = 0 /\ warnings = 0
         THEN <<Line("no-issues", "", "", 0, 0)>>
         ELSE <<Line("found", "", "", errors, warnings)>>)
     \o (IF errors > 0
         THEN <<Line("errors-heading", "", "", 0, 0)>>
              \o Concat([i \in DOMAIN errorIssues |->
                           IssueLines(errorIssues[i], TRUE, german)])
         ELSE <<>>)
     \o (IF warnings > 0
         THEN <<Line("warnings-heading", "", "", 0, 0)>>
              \o Concat([i \in DOMAIN warningIssues |->
                           IssueLines(warningIssues[i], FALSE, german)])
         ELSE <<>>)

MsPerDay == 86400000

generateRecommendations(issues) ==
  LET issueTypes == {issues[i].type : i \in DOMAIN issues}
      Rec(cond, text) == IF cond THEN <<text>> ELSE <<>>
  IN Rec("missing_alt_text" \in issueTypes, "alt-text")
     \o Rec("missing_title" \in issueTypes \/ "missing_document_title" \in issueTypes,
            "titles")
     \o Rec("table_missing_headers" \in issueTypes, "table-headers")
     \o Rec("reading_order_unclear" \in issueTypes, "reading-order")
     \o Rec("pseudo_table" \in issueTypes, "pseudo-table")
     \o Rec("missing_language" \in issueTypes, "language")

\* generateReport on this.issues = issues, new Date() reading t
generateReport(issues, metadata, stats, t) ==
  LET uniqueIssues == deduplicateIssues(issues)
      errorCount == Len(SelectSeq(uniqueIssues, IsError))
      warningCount == Len(SelectSeq(uniqueIssues, IsWarning))
      infoCount == Len(SelectSeq(uniqueIssues, IsInfo))
      conformance == determineConformance(errorCount, warningCount)
  IN [timestamp |-> t,
      documentTitle |-> OrElse(metadata.title, "Unbenannt"),
      issues |-> uniqueIssues,
      summary |-> [total |-> Len(uniqueIssues), errors |-> errorCount,
                   warnings |-> warningCount, info |-> infoCount,
                   autoFixable |-> Len(SelectSeq(uniqueIssues, IsAutoFixable))],
      conformance |-> conformance,
      overallScore |-> calculateScore(errorCount, warningCount, infoCount),
      wcagLevel |-> conformance.wcagLevel,
      pdfuaConformant |-> errorCount = 0,
      recommendations |-> generateRecommendations(uniqueIssues),
      stats |-> stats,
      reportText |-> summaryLines(metadata.title, t, errorCount, warningCount,
                                  uniqueIssues, FALSE),
      reportTextDE |-> summaryLines(metadata.title, t \div MsPerDay, errorCount,
                                    warningCount, uniqueIssues, TRUE)]

\* a validation whose issue ids carry the time of the run
validate_TimedIds(presentation, t) ==
  LET collected == collectedIssues(presentation)
  IN generateReport([i \in DOMAIN collected |->
                       [collected[i] EXCEPT !.id.e2 = ClockId("run", t)]],
                    presentation.metadata, presentation.stats, t)

\* AccessibilityValidator.validate, new Date() reading t
validate(presentation, t) ==
  generateReport(collectedIssues(presentation), presentation.metadata,
                 presentation.stats, t)

(***************************************************************************)
(* PdfUaGenerator                                                           *)
(***************************************************************************)

\* new Map(slide.elements.map(e => [e.id, e])).get(id): the last element
\* carrying the id; 0 when there is none
MapGet(elements, id) ==
  LET hits == {i \in DOMAIN elements : elements[i].id = id}
  IN IF hits = {} THEN 0 ELSE CHOOSE i \in hits : \A j \in hits : j <= i

\* the positions in slide.elements of the elements rendered, in render order
getOrderedElements(slide) ==
  LET Known(k) == MapGet(slide.elements, slide.readingOrder[k]) # 0
      listed == SelectSeq([k \in DOMAIN slide.readingOrder |-> k], Known)
      Unlisted(i) == \A k \in DOMAIN slide.readingOrder :
                        slide.readingOrder[k] # slide.elements[i].id
      rest == SelectSeq([i \in DOMAIN slide.elements |-> i], Unlisted)
  IN [k \in DOMAIN listed |-> MapGet(slide.elements, slide.readingOrder[listed[k]])]
     \o rest

\* the structure element of one rendered element; pos is the position of
\* the element in slide.elements, kept to trace the node to its element
StructNode(role, pos, element, actualText, altText) ==
  [role |-> role, pos |-> pos, id |-> element.id,
   actualText |-> actualText, altText |-> altText, kids |-> <<>>]

\* the TR nodes of renderTable, each with its TH and TD cells
tableRows(tableData) ==
  IF ~tableData.present THEN <<>>
  ELSE [r \in DOMAIN tableData.cells |->
          [role |-> "TR",
           kids |-> [c \in DOMAIN tableData.cells[r] |->
                       [role |-> IF \/ tableData.cells[r][c].isHeader
                                    \/ (r = 1 /\ tableData.hasHeaderRow)
                                 THEN "TH" ELSE "TD",
                        actualText |-> tableData.cells[r][c].content]]]]

TextOrEmpty(s) == IF Truthy(s) THEN s ELSE ""

renderElement(element, pos) ==
  CASE element.type = "title" ->
         StructNode("H1", pos, element, TextOrEmpty(element.text), Undef)
    [] element.type = "subtitle" ->
         StructNode("H2", pos, element, TextOrEmpty(element.text), Undef)
    [] element.type = "list" ->
         StructNode("L", pos, element, Undef, Undef)
    [] element.type = "table" ->
         [StructNode("Table", pos, element, Undef, Undef)
            EXCEPT !.kids = tableRows(element.tableData)]
    [] element.type = "image" ->
         StructNode("Figure", pos, element, Undef,
                    OrElse(element.altText, "[Bild ohne Alternativtext]"))
    [] element.type = "chart" ->
         StructNode("Figure", pos, element, Undef,
                    OrElse(element.altText, "Diagramm"))
    [] element.type = "smartart" ->
         StructNode(IF Truthy(element.altText) THEN "Figure" ELSE "L",
                    pos, element, Undef, element.altText)
    [] OTHER ->
         StructNode("P", pos, element, TextOrEmpty(element.text), Undef)

\* renderSlide: the Part node of the slide
renderSlide(slide) ==
  LET ordered == getOrderedElements(slide)
      Tagged(i) == ~slide.elements[i].isDecorative
      tagged == SelectSeq(ordered, Tagged)
  IN [role |-> "Part", slide |-> slide.number,
      rendered |-> ordered,
      kids |-> [k \in DOMAIN tagged |->
                  renderElement(slide.elements[tagged[k]], tagged[k])]]

\* the options a PdfUaGenerator is constructed with
GeneratorOptions(documentTitle, language) ==
  [documentTitle |-> documentTitle, language |-> OrElse(language, "de")]

setMetadata(options, presentation) ==
  [title |-> OrElse(options.documentTitle,
                    OrElse(presentation.metadata.title, "Unbenannte Praesentation")),
   language |-> OrElse(options.language,
                       OrElse(presentation.metadata.language, "de")),
   author |-> presentation.metadata.author]

\* PdfUaGenerator.generate on a fresh generator: the document saved
generate(options, presentation) ==
  [saved |-> TRUE,
   metadata |-> setMetadata(options, presentation),
   structureTree |-> [k \in DOMAIN presentation.slides |->
                        renderSlide(presentation.slides[k])],
   marked |-> TRUE]

NoPdf == [saved |-> FALSE,
          metadata |-> [title |-> "", language |-> "", author |-> ""],
          structureTree |-> <<>>, marked |-> FALSE]

(***************************************************************************)
(* PptxAiEnhancer.  The answers of the collaborator are inputs: a text,     *)
(* the empty text, or Fail for a call that throws (network error, timeout,  *)
(* error status).                                                           *)
(***************************************************************************)
Fail == "<fail>"
AltAnswers == {"Logo der Firma", "", Fail}
TitleAnswers == {"Neuer Titel", "", Fail}

NeedsAltText(e) ==
  /\ e.type \in {"image", "chart", "smartart"}
  /\ ~e.isDecorative
  /\ (~Truthy(e.altText) \/ Trim(e.altText) = "")

\* an enhancer that asks for every image without alt text
imagesToProcess_NoCap(slide, maxImagesPerSlide) ==
  LET Needs(i) == NeedsAltText(slide.elements[i])
  IN SelectSeq([i \in DOMAIN slide.elements |-> i], Needs)

\* the positions of the elements generateAltTexts processes
imagesToProcess(slide, maxImagesPerSlide) ==
  LET Needs(i) == NeedsAltText(slide.elements[i])
      imagesWithoutAlt == SelectSeq([i \in DOMAIN slide.elements |-> i], Needs)
  IN SubSeq(imagesWithoutAlt, 1, Min(Len(imagesWithoutAlt), maxImagesPerSlide))

TypeDescription(type) ==
  CASE type = "image" -> "[Bild - Beschreibung fehlt]"
    [] type = "chart" -> "[Diagramm - Beschreibung fehlt]"
    [] type = "smartart" -> "[SmartArt-Grafik - Beschreibung fehlt]"
    [] OTHER -> "[Grafisches Element - Beschreibung fehlt]"

\* generateGenericAltText: the text, or Undef for null
generateGenericAltText(element, answer) ==
  IF answer = Fail THEN TypeDescription(element.type)
  ELSE IF Truthy(answer) THEN answer ELSE Undef

removeIssue(element, issueType) ==
  LET Keep(i) == i.type # issueType
  IN [element EXCEPT !.issues = SelectSeq(@, Keep)]

\* generateAltTexts; answers[k] is the answer to the call for the k-th
\* processed element.  No element carries imageData, so every call goes
\* through generateGenericAltText.
generateAltTexts(slide, maxImagesPerSlide, answers) ==
  LET toProcess == imagesToProcess(slide, maxImagesPerSlide)
      AnswerFor(i) ==
        LET k == CHOOSE k \in DOMAIN toProcess : toProcess[k] = i
        IN generateGenericAltText(slide.elements[i], answers[k])
      Processed(i) == \E k \in DOMAIN toProcess : toProcess[k] = i
      Filled(i) == Processed(i) /\ AnswerFor(i) # Undef
      filled == SelectSeq(toProcess, Filled)
  IN [slide |->
        [slide EXCEPT !.elements =
           [i \in DOMAIN slide.elements |->
              IF Filled(i)
              THEN removeIssue([slide.elements[i] EXCEPT
                                  !.altText = AnswerFor(i),
                                  !.altTextStatus = "present"],
                               "missing_alt_text")
              ELSE slide.elements[i]]],
      enhancements |->
        [k \in DOMAIN filled |->
           [type |-> "alt_text", slideNumber |-> slide.number,
            elementId |-> slide.elements[filled[k]].id]],
      calls |-> Len(toProcess)]

IsTitle(e) == e.type = "title"

HasContentText(slide) ==
  \E i \in DOMAIN slide.elements :
     /\ slide.elements[i].type # "title"
     /\ Truthy(slide.elements[i].text)
     /\ Trim(slide.elements[i].text) # ""

\* whether generateSlideTitle calls the collaborator
wantsSlideTitle(slide) ==
  LET titles == SelectSeq(slide.elements, IsTitle)
  IN /\ (titles = <<>> \/ BlankText(titles[1].text))
     /\ HasContentText(slide)

GeneratedTitle(slideNumber, text) ==
  Element([src |-> "generated-title", n |-> slideNumber], "title", text,
          Undef, "present", FALSE,
          [x |-> 50, y |-> 50, width |-> 700, height |-> 50], FALSE, <<>>, NoTable)

generateSlideTitle(slide, answer) ==
  LET TitleAt(i) == slide.elements[i].type = "title"
      titlePositions == SelectSeq([i \in DOMAIN slide.elements |-> i], TitleAt)
      generatedTitle == Trim(answer)
      NotMissingTitle(i) == i.type # "missing_title"
  IN IF ~wantsSlideTitle(slide) \/ answer = Fail \/ ~Truthy(answer)
     THEN [slide |-> slide, enhancements |-> <<>>]
     ELSE [slide |->
             [(IF titlePositions # <<>>
               THEN [slide EXCEPT !.elements[titlePositions[1]].text = generatedTitle]
               ELSE [slide EXCEPT
                       !.elements = <<GeneratedTitle(slide.number, generatedTitle)>> \o @,
                       !.readingOrder =
                          <<[src |-> "generated-title", n |-> slide.number]>> \o @])
              EXCEPT !.issues = SelectSeq(@, NotMissingTitle)],
           enhancements |-> <<[type |-> "title", slideNumber |-> slide.number,
                               elementId |-> NoElem]>>]

\* the suggested order without filter(Boolean): an index outside the list
\* leaves an entry without element
SuggestedIds_Unfiltered(ids, suggested) ==
  [k \in DOMAIN suggested |->
     IF suggested[k] \in DOMAIN ids THEN ids[suggested[k]] ELSE NoElem]

\* suggested.map(i => ids[i - 1]).filter(Boolean) for 1-based indices
SuggestedIds(ids, suggested) ==
  LET InRange(i) == i \in DOMAIN ids
      valid == SelectSeq(suggested, InRange)
  IN [k \in DOMAIN valid |-> ids[valid[k]]]

\* whether verifyReadingOrder calls the collaborator
wantsOrderCheck(slide) == Len(slide.elements) >= 3

\* verifyReadingOrder; answer: <<>> for "correct" or a failed call, or the
\* suggested 1-based positions in slide.elements
verifyReadingOrder(slide, answer) ==
  LET ids == [i \in DOMAIN slide.elements |-> slide.elements[i].id]
      newOrder == SuggestedIds(ids, answer)
  IN IF /\ wantsOrderCheck(slide)
        /\ answer # <<>>
        /\ Len(newOrder) = Len(slide.readingOrder)
     THEN [slide |-> [slide EXCEPT !.readingOrder = newOrder,
                                   !.readingOrderConfidence = Literal("0.9")],
           enhancements |-> <<[type |-> "reading_order",
                               slideNumber |-> slide.number,
                               elementId |-> NoElem]>>]
     ELSE [slide |-> slide, enhancements |-> <<>>]

HasText(e) == Truthy(e.text) /\ Trim(e.text) # ""

\* whether analyzeContentStructure calls the collaborator
wantsStructure(slide) == Len(SelectSeq(slide.elements, HasText)) >= 2

\* analyzeContentStructure; answer: <<>> for a failed call or an analysis
\* without readingOrder, or the positions (here 1-based) in the list of
\* text elements
analyzeContentStructure(slide, answer) ==
  LET textElements == SelectSeq(slide.elements, HasText)
      ids == [i \in DOMAIN textElements |-> textElements[i].id]
      newOrder == SuggestedIds(ids, answer)
  IN IF /\ wantsStructure(slide)
        /\ answer # <<>>
        /\ Len(newOrder) = Len(slide.readingOrder)
        /\ newOrder # slide.readingOrder
     THEN [slide |-> [slide EXCEPT !.readingOrder = newOrder,
                                   !.readingOrderConfidence = Literal("0.95")],
           enhancements |-> <<[type |-> "reading_order",
                               slideNumber |-> slide.number,
                               elementId |-> NoElem]>>]
     ELSE [slide |-> slide, enhancements |-> <<>>]

\* the body of the loop of enhance for one slide
enhanceSlide(slide, options, features, altAnswers, titleAnswer, orderAnswer, structureAnswer) ==
  LET s1 == IF options.generateAltTexts /\ features.vision
            THEN generateAltTexts(slide, options.maxImagesPerSlide, altAnswers)
            ELSE [slide |-> slide, enhancements |-> <<>>, calls |-> 0]
      s2 == IF options.generateSlideTitles /\ features.text
            THEN generateSlideTitle(s1.slide, titleAnswer)
            ELSE [slide |-> s1.slide, enhancements |-> <<>>]
      s3 == IF options.verifyReadingOrder /\ features.text
            THEN verifyReadingOrder(s2.slide, orderAnswer)
            ELSE [slide |-> s2.slide, enhancements |-> <<>>]
      s4 == IF options.analyzeContentStructure /\ features.text
            THEN analyzeContentStructure(s3.slide, structureAnswer)
            ELSE [slide |-> s3.slide, enhancements |-> <<>>]
  IN [slide |-> s4.slide,
      enhancements |-> s1.enhancements \o s2.enhancements \o s3.enhancements
                       \o s4.enhancements,
      altTextsGenerated |-> Len(s1.enhancements),
      titlesGenerated |-> Len(s2.enhancements),
      altCalls |-> s1.calls,
      calls |-> s1.calls
                + (IF options.generateSlideTitles /\ features.text
                      /\ wantsSlideTitle(s1.slide) THEN 1 ELSE 0)
                + (IF options.verifyReadingOrder /\ features.text
                      /\ wantsOrderCheck(s2.slide) THEN 1 ELSE 0)
                + (IF options.analyzeContentStructure /\ features.text
                      /\ wantsStructure(s3.slide) THEN 1 ELSE 0)]

(***************************************************************************)
(* Inputs of the model                                                      *)
(***************************************************************************)
TitleShape == RawNode("sp", 1, "title", "Title 1", "Quartalsbericht", Undef,
                      FALSE, 50, 50, 700, 50, FALSE)
TextBox == RawNode("sp", 4, "", "TextBox 5", "Umsatz", Undef,
                   FALSE, 100, 160, 200, 40, FALSE)
PicNoAlt == RawNode("pic", 2, "", "Picture 2", "", Undef,
                    FALSE, 50, 150, 200, 100, FALSE)
PicNoId == RawNode("pic", 0, "", "Picture", "", Undef,
                   FALSE, 400, 150, 200, 100, FALSE)
PicWithAlt == RawNode("pic", 3, "", "Picture 3", "", "Logo der Firma",
                      FALSE, 400, 300, 200, 100, FALSE)
DecorativeChart == RawNode("chart", 5, "", "Chart 5", "", " ",
                           FALSE, 50, 400, 300, 100, FALSE)

EmptyTitle == RawNode("sp", 1, "title", "Title 1", "", Undef,
                      FALSE, 50, 50, 700, 50, FALSE)
SmartArtNode == RawNode("smartart", 7, "", "Diagram 7", "", Undef,
                        FALSE, 50, 300, 300, 100, FALSE)
PicEmptyDescr == RawNode("pic", 8, "", "Picture 8", "", "",
                         FALSE, 600, 300, 100, 100, FALSE)
PicTwoSpaces == RawNode("pic", 9, "", "Picture 9", "", "  ",
                        FALSE, 600, 450, 100, 100, FALSE)
PicFileName == RawNode("pic", 12, "", "Picture 12", "", "image.jpg",
                       FALSE, 300, 450, 100, 100, FALSE)
LinkBox == RawNode("sp", 6, "", "TextBox 6", "Click Here", Undef,
                   FALSE, 450, 50, 100, 40, TRUE)
GroupNode == RawGroup(10, <<RawNode("sp", 11, "", "TextBox 11", "Umsatz", Undef,
                                    FALSE, 50, 200, 100, 40, FALSE),
                            RawNode("pic", 13, "", "Picture 13", "", " ",
                                    FALSE, 200, 200, 100, 40, FALSE)>>)
TableNode == RawTable(14, 50, 300, <<<<"Umsatz", "Quartalsbericht">>, <<"", "Umsatz">>>>)

\* a text box of the grid of the scenario: row r, column c
GridBox(r, c) ==
  RawNode("sp", 20 + 3 * (r - 1) + c, "", "TextBox", "Umsatz", Undef, FALSE,
          50 + 250 * (c - 1), 200 + 60 * (r - 1), 200, 40, FALSE)

\* the k-th of a row of pictures without alt text
Pic(k) ==
  RawNode("pic", 30 + k, "", "Picture", "", Undef, FALSE,
          50 + 110 * (k - 1), 320, 100, 100, FALSE)

FullMeta == [dcTitle |-> "Quartalsbericht", dcCreator |-> "Amt",
             dcLanguage |-> "en", appTitle |-> Undef]
EmptyMeta == [dcTitle |-> Undef, dcCreator |-> Undef,
              dcLanguage |-> Undef, appTitle |-> Undef]

RawSlide(nodes) == [exists |-> TRUE, nodes |-> nodes]
MissingSlide == [exists |-> FALSE, nodes |-> <<>>]

\* a package: slides[i] is the part ppt/slides/slide<i>.xml, sldIdLst the
\* slide list of ppt/presentation.xml, each entry the number of the part it
\* refers to; here the list declares the parts in the order of their numbers
Package(meta, slides) ==
  [validZip |-> TRUE, hasPresentationXml |-> TRUE, meta |-> meta, slides |-> slides,
   sldIdLst |-> [k \in DOMAIN slides |-> k]]

\* three slides; slide 2 has a picture without alt text, slide 3 a 2x3
\* grid of text boxes; nothing else is wrong
Scenario ==
  Package(FullMeta,
          <<RawSlide(<<TitleShape>>),
            RawSlide(<<TitleShape, PicNoAlt>>),
            RawSlide(<<TitleShape, GridBox(1, 1), GridBox(1, 2), GridBox(1, 3),
                       GridBox(2, 1), GridBox(2, 2), GridBox(2, 3)>>)>>)

\* the same element id on two slides
SameIdOnTwoSlides ==
  Package(FullMeta, <<RawSlide(<<TitleShape, PicNoAlt>>),
                      RawSlide(<<TitleShape, PicNoAlt>>)>>)

Assorted ==
  Package(FullMeta,
          <<RawSlide(<<EmptyTitle, SmartArtNode, TableNode, LinkBox>>),
            RawSlide(<<TitleShape, PicEmptyDescr, PicTwoSpaces, PicFileName,
                       GroupNode>>)>>)

ManyTexts ==
  Package(EmptyMeta, <<RawSlide(<<TextBox, LinkBox, PicNoAlt>>)>>)

Malformed ==
  {[Package(FullMeta, <<RawSlide(<<TitleShape>>)>>) EXCEPT !.validZip = FALSE],
   [Package(FullMeta, <<RawSlide(<<TitleShape>>)>>) EXCEPT !.hasPresentationXml = FALSE],
   Package(FullMeta, <<MissingSlide, RawSlide(<<TitleShape>>)>>)}

\* the slides the decks of the model are made of
CleanSlide == <<TitleShape>>
PictureSlide == <<TitleShape, PicNoAlt>>
UntitledSlide == <<PicNoAlt, TextBox>>
NoIdSlide == <<TitleShape, PicNoId, PicNoId>>
DecorSlide == <<TitleShape, PicWithAlt, DecorativeChart>>
TextSlide == <<TitleShape, TextBox, LinkBox>>

SlideKinds == {CleanSlide, PictureSlide, UntitledSlide, NoIdSlide, DecorSlide,
               TextSlide}

\* the decks of at most n slides of the given kinds
Decks(Kinds, n) == {[k \in DOMAIN kinds |-> RawSlide(kinds[k])] :
                      kinds \in SeqsUpTo(Kinds, n)}

\* four pictures without alt text and a document without title
ManyErrors ==
  Package(EmptyMeta, <<RawSlide(<<PicNoAlt, PicNoId>>),
                       RawSlide(<<PicNoAlt, PicNoId>>)>>)

\* one more picture without alt text than the enhancer asks for, and two
\* texts without a title
ManyPictures ==
  Package(FullMeta,
          <<RawSlide(<<TextBox, GridBox(2, 3), Pic(1), Pic(2), Pic(3), Pic(4),
                       Pic(5), Pic(6)>>)>>)

\* a slide list that declares the second slide part first
Reordered ==
  [Package(FullMeta, <<RawSlide(<<TitleShape>>), RawSlide(<<TitleShape, PicNoAlt>>)>>)
     EXCEPT !.sldIdLst = <<2, 1>>]

\* the k-th of a pile of text boxes, each 10px right of the one before
PiledBox(k) ==
  RawNode("sp", 40 + k, "", "TextBox", "Umsatz", Undef, FALSE,
          50 + 10 * (k - 1), 200, 200, 40, FALSE)

\* a slide of three text boxes piled up in one row, and a slide with a
\* group and a text box that lies across the group's text
Crowded ==
  Package(FullMeta,
          <<RawSlide(<<PiledBox(1), PiledBox(2), PiledBox(3)>>),
            RawSlide(<<TitleShape, GroupNode,
                       RawNode("sp", 44, "", "TextBox", "Umsatz", Undef, FALSE,
                               60, 230, 100, 40, FALSE)>>)>>)

\* the k-th of a flight of text boxes, each 15px lower and 100px further
\* left than the one before
StaggeredBox(k) ==
  RawNode("sp", 50 + k, "", "TextBox", "Umsatz", Undef, FALSE,
          300 - 100 * (k - 1), 200 + 15 * (k - 1), 80, 10, FALSE)

\* a slide of a subtitle below three staggered text boxes
Staggered ==
  Package(FullMeta,
          <<RawSlide(<<StaggeredBox(1), StaggeredBox(2), StaggeredBox(3),
                       RawNode("sp", 54, "subTitle", "Subtitle", "Umsatz", Undef,
                               FALSE, 50, 400, 700, 40, FALSE)>>)>>)

\* a slide of five text boxes in rows of three and two, and a slide of
\* four text boxes in one row
Uneven ==
  Package(FullMeta,
          <<RawSlide(<<TitleShape, GridBox(1, 1), GridBox(1, 2), GridBox(1, 3),
                       GridBox(2, 1), GridBox(2, 2)>>),
            RawSlide(<<TitleShape, GridBox(1, 1), GridBox(1, 2), GridBox(1, 3),
                       PiledBox(1)>>)>>)

\* a text box carrying a hyperlink
LinkWith(idAttr, text, y) ==
  RawNode("sp", idAttr, "", "TextBox", text, Undef, FALSE, 450, y, 100, 40, TRUE)

\* a slide of links with the texts "here", "Click Here", "mehr" and "Umsatz"
Links ==
  Package(FullMeta,
          <<RawSlide(<<TitleShape, LinkWith(61, "here", 150), LinkWith(62, "Click Here", 250),
                       LinkWith(63, "mehr", 350), LinkWith(64, "Umsatz", 450)>>)>>)

Handmade == {Scenario, SameIdOnTwoSlides, Assorted, ManyTexts, ManyErrors}

\* the packages handed to the library
Packages ==
  {Package(FullMeta, slides) : slides \in Decks(SlideKinds, MaxSlides)}
  \cup Handmade \cup Malformed \cup {ManyPictures, Reordered, Crowded, Staggered, Uneven, Links}

\* the packages uploaded to the route
Uploads ==
  {Package(FullMeta, slides) :
     slides \in Decks({UntitledSlide, TextSlide}, MaxSlides)}
  \cup Handmade \cup Malformed

\* the form fields of a conversion request
Requests ==
  [fileValid : {TRUE}, customTitle : {""}, language : {""},
   validateOnly : BOOLEAN, useAI : BOOLEAN]
  \cup {[fileValid |-> TRUE, customTitle |-> "Neuer Titel", language |-> "x",
         validateOnly |-> FALSE, useAI |-> FALSE],
        [fileValid |-> FALSE, customTitle |-> "", language |-> "",
         validateOnly |-> FALSE, useAI |-> FALSE]}

(***************************************************************************)
(* One conversion job of the route POST /api/convert/pptx-to-pdf-ua         *)
(***************************************************************************)
VARIABLES
  pc,               \* position of the job in POST
  pkg,              \* the uploaded package
  req,              \* the form fields of the request
  now,              \* the clock (Date.now(), new Date())
  presentation,     \* the Presentation of the job
  ai,               \* the enhancer of the job: features, loop position, result
  ollamaAvailable,  \* OllamaService.available of the singleton
  issues,           \* AccessibilityValidator.issues of the validator
  report,           \* the AccessibilityReport of the job
  previous,         \* the report of the validation before, kept by the caller
  pdf,              \* the document generated by the job
  files,            \* upload, public download and report files of the job
  response          \* the response of POST

vars == <<pc, pkg, req, now, presentation, ai, ollamaAvailable, issues,
          report, previous, pdf, files, response>>

NoPresentation ==
  [metadata |-> [title |-> "", author |-> "", language |-> ""],
   slides |-> <<>>, issues |-> <<>>, stats |-> calculateStats(<<>>)]

NoReport == generateReport(<<>>, NoPresentation.metadata, NoPresentation.stats, 0)

NoAi == [features |-> [text |-> FALSE, vision |-> FALSE], idx |-> 0,
         ran |-> FALSE, enhancements |-> <<>>,
         altTextsGenerated |-> 0, titlesGenerated |-> 0, altCalls |-> <<>>,
         calls |-> <<>>]

NoRequest == [fileValid |-> FALSE, customTitle |-> "", language |-> "",
              validateOnly |-> FALSE, useAI |-> FALSE]

NoResponse == [status |-> 0, success |-> FALSE, downloadUrl |-> FALSE]

\* the options the route constructs its PptxAiEnhancer with
RouteEnhancerOptions ==
  [generateAltTexts |-> TRUE, generateSlideTitles |-> TRUE,
   verifyReadingOrder |-> FALSE, analyzeContentStructure |-> TRUE,
   maxImagesPerSlide |-> DefaultMaxImagesPerSlide]

Init ==
  /\ pc = "idle"
  /\ pkg = Package(EmptyMeta, <<>>)
  /\ req = NoRequest
  /\ now = 0
  /\ presentation = NoPresentation
  /\ ai = NoAi
  /\ ollamaAvailable = "unknown"
  /\ issues = <<>>
  /\ report = NoReport
  /\ previous = NoReport
  /\ pdf = NoPdf
  /\ files = [upload |-> FALSE, download |-> FALSE, report |-> FALSE]
  /\ response = NoResponse

\* time passes
Tick ==
  /\ now < MaxClock
  /\ now' = now + 1
  /\ UNCHANGED <<pc, pkg, req, presentation, ai, ollamaAvailable, issues,
                 report, pdf, files, response, previous>>

\* POST up to the write of the upload: form parsing and validateFile
Post ==
  /\ pc = "idle"
  /\ \E p \in Uploads, r \in Requests :
       /\ pkg' = p
       /\ req' = r
       /\ IF r.fileValid
          THEN /\ pc' = "uploaded"
               /\ files' = [files EXCEPT !.upload = TRUE]
               /\ response' = response
          ELSE /\ pc' = "done"
               /\ files' = files
               /\ response' = [status |-> 400, success |-> FALSE,
                               downloadUrl |-> FALSE]
  /\ UNCHANGED <<now, presentation, ai, ollamaAvailable, issues, report, pdf,
                 previous>>

\* phase 1: parser.parse and the title and language overrides
Parse ==
  /\ pc = "uploaded"
  /\ IF pkg.validZip
     THEN LET parsed == parse(pkg, now)
              language == OrElse(req.language, "de")
          IN /\ presentation' =
                  [parsed EXCEPT
                     !.metadata.title = IF Truthy(req.customTitle)
                                        THEN req.customTitle ELSE @,
                     !.metadata.language = language]
             /\ pc' = "parsed"
             /\ UNCHANGED <<files, response>>
     ELSE /\ pc' = "done"
          /\ files' = [files EXCEPT !.upload = FALSE]
          /\ response' = [status |-> 400, success |-> FALSE, downloadUrl |-> FALSE]
          /\ UNCHANGED presentation
  /\ UNCHANGED <<pkg, req, now, ai, ollamaAvailable, issues, report, pdf,
                 previous>>

\* a route that fails the job when the collaborator is unreachable
EnhanceStart_FailsJob ==
  /\ pc = "parsed"
  /\ req.useAI
  /\ \E up \in BOOLEAN, text \in BOOLEAN, vision \in BOOLEAN :
       LET available == IF ollamaAvailable = "unknown" THEN up
                        ELSE ollamaAvailable = "yes"
       IN /\ ollamaAvailable' = IF available THEN "yes" ELSE "no"
          /\ IF available
             THEN /\ ai' = [NoAi EXCEPT !.features = [text |-> text, vision |-> vision],
                                        !.idx = 1, !.ran = TRUE]
                  /\ pc' = IF presentation.slides = <<>> THEN "enhanced"
                           ELSE "enhancing"
                  /\ UNCHANGED <<files, response>>
             ELSE /\ ai' = NoAi
                  /\ pc' = "done"
                  /\ files' = [files EXCEPT !.upload = FALSE]
                  /\ response' = [status |-> 500, success |-> FALSE,
                                  downloadUrl |-> FALSE]
  /\ UNCHANGED <<pkg, req, now, presentation, issues, report, pdf, previous>>

\* phase 2, up to the loop of enhance: the availability check of the
\* singleton service (cached after the first probe) and listModels
EnhanceStart ==
  /\ pc = "parsed"
  /\ req.useAI
  /\ \E up \in BOOLEAN, text \in BOOLEAN, vision \in BOOLEAN :
       LET available == IF ollamaAvailable = "unknown" THEN up
                        ELSE ollamaAvailable = "yes"
       IN /\ ollamaAvailable' = IF available THEN "yes" ELSE "no"
          /\ IF available
             THEN /\ ai' = [NoAi EXCEPT !.features = [text |-> text, vision |-> vision],
                                        !.idx = 1, !.ran = TRUE]
                  /\ pc' = IF presentation.slides = <<>> THEN "enhanced"
                           ELSE "enhancing"
             ELSE /\ ai' = NoAi
                  /\ pc' = "enhanced"
  /\ UNCHANGED <<pkg, req, now, presentation, issues, report, pdf, files, response,
                 previous>>

\* the answers the collaborator may give to a request for a reading order
\* of a slide: none, or for the length of the order (one more when a title
\* is generated first) the positions in turn, reversed, or the first
\* position throughout
OrderAnswers(slide) ==
  {<<>>} \cup
  UNION {{[k \in 1..len |-> k], [k \in 1..len |-> len + 1 - k],
          [k \in 1..len |-> 1]} :
           len \in {Len(slide.readingOrder), Len(slide.readingOrder) + 1}}

\* one iteration of the loop of enhance
EnhanceSlide ==
  /\ pc = "enhancing"
  /\ LET slide == presentation.slides[ai.idx]
         toProcess == imagesToProcess(slide, RouteEnhancerOptions.maxImagesPerSlide)
     IN \E altAnswers \in [DOMAIN toProcess -> AltAnswers],
           titleAnswer \in TitleAnswers,
           structureAnswer \in OrderAnswers(slide) :
          LET result == enhanceSlide(slide, RouteEnhancerOptions, ai.features,
                                     altAnswers, titleAnswer, <<>>, structureAnswer)
          IN /\ presentation' = [presentation EXCEPT !.slides[ai.idx] = result.slide]
             /\ ai' = [ai EXCEPT
                         !.idx = @ + 1,
                         !.enhancements = @ \o result.enhancements,
                         !.altTextsGenerated = @ + result.altTextsGenerated,
                         !.titlesGenerated = @ + result.titlesGenerated,
                         !.altCalls = Append(@, result.altCalls),
                         !.calls = Append(@, result.calls)]
             /\ pc' = IF ai.idx = Len(presentation.slides) THEN "enhanced"
                      ELSE "enhancing"
  /\ UNCHANGED <<pkg, req, now, ollamaAvailable, issues, report, pdf, files,
                 response, previous>>

\* phase 3: validatePresentation, and the response of a validate-only request
Validate ==
  /\ \/ pc = "parsed" /\ ~req.useAI
     \/ pc = "enhanced"
  /\ issues' = collectedIssues(presentation)
  /\ report' = validate(presentation, now)
  /\ IF req.validateOnly
     THEN /\ pc' = "done"
          /\ files' = [files EXCEPT !.upload = FALSE, !.report = TRUE]
          /\ response' = [status |-> 200, success |-> TRUE, downloadUrl |-> FALSE]
     ELSE /\ pc' = "validated"
          /\ UNCHANGED <<files, response>>
  /\ UNCHANGED <<pkg, req, now, presentation, ai, ollamaAvailable, previous, pdf>>

\* the generator of the route: title and language of the model as options
RouteGeneratorOptions(p) ==
  GeneratorOptions(p.metadata.title, p.metadata.language)

\* a route that hands out a document only for a report without errors
Generate_IfConformant ==
  /\ pc = "validated"
  /\ report.pdfuaConformant
  /\ pdf' = generate(RouteGeneratorOptions(presentation), presentation)
  /\ files' = [files EXCEPT !.download = TRUE]
  /\ pc' = "generated"
  /\ UNCHANGED <<pkg, req, now, presentation, ai, ollamaAvailable, issues, report,
                 response, previous>>

\* PDF generation and the write of the download
Generate ==
  /\ pc = "validated"
  /\ pdf' = generate(RouteGeneratorOptions(presentation), presentation)
  /\ files' = [files EXCEPT !.download = TRUE]
  /\ pc' = "generated"
  /\ UNCHANGED <<pkg, req, now, presentation, ai, ollamaAvailable, issues, report,
                 response, previous>>

\* saveReport, cleanup and the success response; when one of the two
\* writes of saveReport throws, the catch of POST cleans up the upload and
\* answers 500
Respond ==
  /\ pc = "generated"
  /\ \E failing \in {"none", "json", "txt"} :
       IF failing = "none"
       THEN /\ files' = [files EXCEPT !.upload = FALSE, !.report = TRUE]
            /\ response' = [status |-> 200, success |-> TRUE, downloadUrl |-> TRUE]
       ELSE /\ files' = [files EXCEPT !.upload = FALSE, !.report = (failing = "txt")]
            /\ response' = [status |-> 500, success |-> FALSE, downloadUrl |-> FALSE]
  /\ pc' = "done"
  /\ UNCHANGED <<pkg, req, now, presentation, ai, ollamaAvailable, issues, report,
                 pdf, previous>>

\* the enhancer of another job, running at the same time, asks the
\* singleton OllamaService whether the collaborator is available: the first
\* probe of the process sets the cached answer, later ones return it
OtherJobIsAvailable ==
  /\ ollamaAvailable = "unknown"
  /\ \E up \in BOOLEAN : ollamaAvailable' = IF up THEN "yes" ELSE "no"
  /\ UNCHANGED <<pc, pkg, req, now, presentation, ai, issues, report, previous,
                 pdf, files, response>>

Next ==
  \/ Tick
  \/ Post
  \/ OtherJobIsAvailable
  \/ Parse
  \/ EnhanceStart
  \/ EnhanceSlide
  \/ Validate
  \/ Generate
  \/ Respond

Spec == Init /\ [][Next]_vars

(***************************************************************************)
(* The library called directly: new PptxParser().parse, validatePresentation*)
(* and generateAccessiblePdf on the Presentation a caller holds             *)
(***************************************************************************)
\* parser.parse of a package, or of the package parsed before
LibParse ==
  /\ \E p \in Packages :
       /\ p.validZip
       /\ pc = "idle" \/ p = pkg
       /\ pkg' = p
       /\ presentation' = parse(p, now)
  /\ pc' = "parsed"
  /\ issues' = <<>>
  /\ report' = NoReport
  /\ previous' = NoReport
  /\ pdf' = NoPdf
  /\ ai' = NoAi
  /\ UNCHANGED <<req, now, ollamaAvailable, files, response>>

\* validatePresentation(presentation), for the first time or again
LibValidate ==
  /\ pc \in {"parsed", "validated", "revalidated"}
  /\ issues' = collectedIssues(presentation)
  /\ report' = validate(presentation, now)
  /\ previous' = report
  /\ pc' = IF pc = "parsed" THEN "validated" ELSE "revalidated"
  /\ UNCHANGED <<pkg, req, now, presentation, ai, ollamaAvailable, pdf, files,
                 response>>

\* the options a caller may construct a PdfUaGenerator with
GeneratorOptionSets ==
  {GeneratorOptions(documentTitle, language) :
     documentTitle \in {Undef, "Neuer Titel"}, language \in {Undef, "en", "fr"}}

\* generateAccessiblePdf(presentation, options)
LibGenerate ==
  /\ pc \in {"parsed", "validated", "revalidated"}
  /\ \E options \in GeneratorOptionSets :
       pdf' = generate(options, presentation)
  /\ UNCHANGED <<pc, pkg, req, now, presentation, ai, ollamaAvailable, issues,
                 report, files, response, previous>>

LibNext ==
  \/ Tick
  \/ LibParse
  \/ LibValidate
  \/ LibGenerate

LibrarySpec == Init /\ [][LibNext]_vars

(***************************************************************************)
(* The enhancer called directly: enhancePresentation(presentation, options) *)
(* on a parsed Presentation, with all four enhancements switched on         *)
(***************************************************************************)
AllEnhancements ==
  [generateAltTexts |-> TRUE, generateSlideTitles |-> TRUE,
   verifyReadingOrder |-> TRUE, analyzeContentStructure |-> TRUE,
   maxImagesPerSlide |-> DefaultMaxImagesPerSlide]

\* an answer of the collaborator to a request for the order of a slide:
\* none, or for the length of the reading order plus extra the positions
\* in turn, reversed, or the first position throughout
OrderAnswer(slide, kind, extra) ==
  LET len == Len(slide.readingOrder) + extra
  IN CASE kind = "none" -> <<>>
       [] kind = "same" -> [k \in 1..len |-> k]
       [] kind = "reversed" -> [k \in 1..len |-> len + 1 - k]
       [] OTHER -> [k \in 1..len |-> 1]

\* the loop of enhance over the slides with all enhancements on; the
\* collaborator answers alike for every element, slide and request for an
\* order
enhanceEach(slides, features, altAnswer, titleAnswer, kind, extra) ==
  [k \in DOMAIN slides |->
     enhanceSlide(slides[k], AllEnhancements, features,
                  [e \in DOMAIN imagesToProcess(slides[k],
                                  AllEnhancements.maxImagesPerSlide)
                     |-> altAnswer],
                  titleAnswer, OrderAnswer(slides[k], kind, extra),
                  OrderAnswer(slides[k], kind, extra))]

\* the EnhancementResult of enhance gathered from the slides' results
enhanceResult(features, results) ==
  [slides |-> [k \in DOMAIN results |-> results[k].slide],
   ai |-> [features |-> features,
           idx |-> Len(results) + 1,
           ran |-> TRUE,
           enhancements |-> Concat([k \in DOMAIN results |-> results[k].enhancements]),
           altTextsGenerated |->
             SeqSum([k \in DOMAIN results |-> results[k].altTextsGenerated]),
           titlesGenerated |->
             SeqSum([k \in DOMAIN results |-> results[k].titlesGenerated]),
           altCalls |-> [k \in DOMAIN results |-> results[k].altCalls],
           calls |-> [k \in DOMAIN results |-> results[k].calls]]]

\* enhance(presentation): the availability check and the loop over the
\* slides
LibEnhance ==
  /\ pc = "parsed"
  /\ \E up \in BOOLEAN, text \in BOOLEAN, vision \in BOOLEAN,
        altAnswer \in AltAnswers, titleAnswer \in TitleAnswers,
        kind \in {"none", "same", "reversed", "first"}, extra \in {0, 1} :
       LET available == IF ollamaAvailable = "unknown" THEN up
                        ELSE ollamaAvailable = "yes"
           features == [text |-> text, vision |-> vision]
           result == enhanceResult(features,
                       enhanceEach(presentation.slides, features, altAnswer,
                                   titleAnswer, kind, extra))
       IN /\ ollamaAvailable' = IF available THEN "yes" ELSE "no"
          /\ IF available
             THEN /\ presentation' = [presentation EXCEPT !.slides = result.slides]
                  /\ ai' = result.ai
             ELSE /\ presentation' = presentation
                  /\ ai' = NoAi
  /\ pc' = "enhanced"
  /\ UNCHANGED <<pkg, req, now, issues, report, previous, pdf, files, response>>

EnhancerNext ==
  \/ LibParse
  \/ LibEnhance

EnhancerSpec == Init /\ [][EnhancerNext]_vars

(***************************************************************************)
(* One run of AccessibilityValidator.validate seen from inside: the checks  *)
(* push issues, generateReport closes the run                               *)
(***************************************************************************)
\* the k-th finding of a run, of the given severity
Finding(k, severity) ==
  Issue(IssueId("slide", k, AttrId(k), NoElem, severity),
        CASE severity = "error" -> "missing_alt_text"
          [] severity = "warning" -> "pseudo_table"
          [] OTHER -> "reading_order_uncertain",
        severity, k, AttrId(k), severity = "error", Msg(severity, ""), "")

\* number of ids among the issues pushed so far
Distinct(list) == Cardinality({list[i].id : i \in DOMAIN list})

\* validate() starts: this.issues = []
StartValidate ==
  /\ pc = "idle"
  /\ pc' = "validating"
  /\ issues' = <<>>
  /\ UNCHANGED <<pkg, req, now, presentation, ai, ollamaAvailable, report, pdf,
                 files, response, previous>>

\* addIssue, or a push of collectPresentationIssues: an issue of a new id,
\* or one more issue under the id of the first
AddIssue ==
  /\ pc = "validating"
  /\ Len(issues) < MaxIssues
  /\ \E severity \in {"error", "warning", "info"} :
       \/ issues' = Append(issues, Finding(Distinct(issues) + 1, severity))
       \/ /\ issues # <<>>
          /\ Len(issues) - Distinct(issues) < MaxDups
          /\ issues' = Append(issues, [Finding(Distinct(issues) + 1, severity)
                                         EXCEPT !.id = issues[1].id])
  /\ UNCHANGED <<pc, pkg, req, now, presentation, ai, ollamaAvailable, report,
                 pdf, files, response, previous>>

\* the run ends: return this.generateReport()
GenerateReport ==
  /\ pc = "validating"
  /\ report' = generateReport(issues, presentation.metadata, presentation.stats, now)
  /\ pc' = "validated"
  /\ UNCHANGED <<pkg, req, now, presentation, ai, ollamaAvailable, issues, pdf,
                 files, response, previous>>

ValidatorNext ==
  \/ StartValidate
  \/ AddIssue
  \/ GenerateReport

ValidatorSpec == Init /\ [][ValidatorNext]_vars

(***************************************************************************)
(* Properties of the report (ValidatorSpec)                                 *)
(***************************************************************************)
\* the report of a run that pushed the given issues
ReportOf(list) ==
  generateReport(list, presentation.metadata, presentation.stats, now)

\* an issue of the given severity under an id not pushed so far
FreshIssue(severity) == Finding(Distinct(issues) + 1, severity)

\* C1: the score of a report is max(0, 100 - 15 errors - 5 warnings - info)
\* over its deduplicated issues; one more error under a new id lowers the
\* score by exactly 15 and one more warning by exactly 5, down to the floor 0
C1_ScoreFormula ==
  pc = "validated" =>
    /\ report.overallScore =
         Max(0, 100 - 15 * Len(SelectSeq(report.issues, IsError))
                    - 5 * Len(SelectSeq(report.issues, IsWarning))
                    - 1 * Len(SelectSeq(report.issues, IsInfo)))
    /\ ReportOf(Append(issues, FreshIssue("error"))).overallScore =
         Max(0, report.overallScore - 15)
    /\ ReportOf(Append(issues, FreshIssue("warning"))).overallScore =
         Max(0, report.overallScore - 5)

\* six errors and a warning score 5: a seventh error meets the floor
C1_Witness ==
  /\ pc = "validated"
  /\ report.summary.errors = 6
  /\ report.summary.warnings = 1
  /\ report.summary.info = 0
  /\ report.overallScore = 5
  /\ ReportOf(Append(issues, FreshIssue("error"))).overallScore = 0

\* C2: the conformance verdict follows from the deduplicated error and
\* warning counts alone: no errors and no warnings give AAA, PDF/UA-1 and
\* bitvConformant; no errors give AA, PDF/UA-1 and bitvConformant; one to
\* three errors give A, partial and not bitvConformant; more give none
C2_ConformanceTable ==
  pc = "validated" =>
    LET e == report.summary.errors
        w == report.summary.warnings
        c == report.conformance
    IN /\ e = Len(SelectSeq(report.issues, IsError))
       /\ w = Len(SelectSeq(report.issues, IsWarning))
       /\ (e = 0 /\ w = 0) =>
            c.wcagLevel = "AAA" /\ c.pdfuaLevel = "PDF/UA-1" /\ c.bitvConformant
       /\ (e = 0 /\ w > 0) =>
            c.wcagLevel = "AA" /\ c.pdfuaLevel = "PDF/UA-1" /\ c.bitvConformant
       /\ (1 <= e /\ e <= 3) =>
            c.wcagLevel = "A" /\ c.pdfuaLevel = "partial" /\ ~c.bitvConformant
       /\ e > 3 =>
            c.wcagLevel = "none" /\ c.pdfuaLevel = "none" /\ ~c.bitvConformant
       /\ report.wcagLevel = c.wcagLevel

\* three errors, the most the minimal level allows, with warnings beside
C2_Witness ==
  /\ pc = "validated"
  /\ report.summary.errors = 3
  /\ report.summary.warnings = 2
  /\ report.conformance.wcagLevel = "A"

\* position in the pushed issues of the first issue of an id
FirstIndex(id) ==
  CHOOSE i \in DOMAIN issues :
    issues[i].id = id /\ \A j \in 1..(i - 1) : issues[j].id # id

\* C3: no two issues of a report share an id, of the issues pushed under
\* one id the report keeps the first, in collection order, the total is the
\* number of issues and the sum of the three severity counts, and one more
\* issue under an id already used changes neither the counts nor the score
C3_Deduplicated ==
  pc = "validated" =>
    /\ \A k, l \in DOMAIN report.issues :
         report.issues[k].id = report.issues[l].id => k = l
    /\ {report.issues[k].id : k \in DOMAIN report.issues}
         = {issues[i].id : i \in DOMAIN issues}
    /\ \A k \in DOMAIN report.issues :
         report.issues[k] = issues[FirstIndex(report.issues[k].id)]
    /\ \A k, l \in DOMAIN report.issues :
         k < l => FirstIndex(report.issues[k].id) < FirstIndex(report.issues[l].id)
    /\ report.summary.total = Len(report.issues)
    /\ report.summary.total
         = report.summary.errors + report.summary.warnings + report.summary.info
    /\ \A i \in DOMAIN issues, severity \in {"error", "warning", "info"} :
         LET again == ReportOf(Append(issues, [FreshIssue(severity)
                                                 EXCEPT !.id = issues[i].id]))
         IN /\ again.summary = report.summary
            /\ again.overallScore = report.overallScore

\* an info and later an error under its id: the report keeps the info
C3_Witness ==
  /\ pc = "validated"
  /\ Len(issues) > Len(report.issues)
  /\ issues[1].severity = "info"
  /\ \E i \in DOMAIN issues :
       i > 1 /\ issues[i].id = issues[1].id /\ issues[i].severity = "error"
  /\ report.summary.errors = 0
  /\ report.summary.info >= 1

(***************************************************************************)
(* Properties of parse and validate called directly (LibrarySpec)           *)
(***************************************************************************)
\* number of issues of the report of a type and severity on a slide; slide
\* 0 counts over the whole report
Reported(type, severity, slideNumber) ==
  Cardinality({k \in DOMAIN report.issues :
                 /\ report.issues[k].type = type
                 /\ report.issues[k].severity = severity
                 /\ slideNumber # 0 => report.issues[k].slideNumber = slideNumber})

\* a non-decorative image without alt text
LacksAltText(e) == e.type = "image" /\ ~e.isDecorative /\ BlankText(e.altText)

\* the text boxes of the slide form a grid
FormsGrid(slide) == detectPseudoTable(SelectSeq(slide.elements, IsTextbox))

\* C4: a presentation parsed and validated without enhancement reports
\* every defect once: on every slide as many missing_alt_text errors as the
\* slide has non-decorative images without alt text, and one pseudo_table
\* warning if its text boxes form a grid, none otherwise; the three-slide
\* scenario reports one missing_alt_text error, one pseudo_table warning and
\* nothing else, and scores 85
C4_EachDefectOnce ==
  pc \in {"validated", "revalidated"} =>
    /\ \A k \in DOMAIN presentation.slides :
         LET slide == presentation.slides[k]
         IN /\ Reported("missing_alt_text", "error", slide.number)
                 = Cardinality({i \in DOMAIN slide.elements :
                                  LacksAltText(slide.elements[i])})
            /\ Reported("pseudo_table", "warning", slide.number)
                 = IF FormsGrid(slide) THEN 1 ELSE 0
    /\ pkg = Scenario =>
         /\ Reported("missing_alt_text", "error", 0) = 1
         /\ Reported("pseudo_table", "warning", 0) = 1
         /\ report.summary.total = 2
         /\ report.overallScore = 85

NotDateLine(line) == line.kind # "date"

\* a report without its readings of the clock
Timeless(r) ==
  [r EXCEPT !.timestamp = 0,
            !.reportText = SelectSeq(@, NotDateLine),
            !.reportTextDE = SelectSeq(@, NotDateLine)]

ParserIds(p) ==
  LET found == collectPresentationIssues(p)
  IN {found[i].id : i \in DOMAIN found}

IssueIds(p) ==
  LET found == collectedIssues(p)
  IN {found[i].id : i \in DOMAIN found}

\* s with the entries at i and i + 1 exchanged; s without the entry at i
Swapped(s, i) ==
  [j \in DOMAIN s |-> IF j = i THEN s[i + 1] ELSE IF j = i + 1 THEN s[i] ELSE s[j]]

Without(s, i) == SubSeq(s, 1, i - 1) \o SubSeq(s, i + 1, Len(s))

\* C6: issue ids depend on check, slide number and element id only: parsing
\* the package again gives the ids the presentation carries; exchanging two
\* neighbours among the nodes or the elements of a slide changes no id; and
\* without an element the issues of the other elements keep their ids
C6_StableIds ==
  pc # "idle" =>
    /\ ParserIds(parse(pkg, now)) = ParserIds(presentation)
    /\ \A k \in DOMAIN pkg.slides :
         \A i \in 1..(Len(pkg.slides[k].nodes) - 1) :
           ParserIds(parse([pkg EXCEPT !.slides[k].nodes = Swapped(@, i)], now))
             = ParserIds(parse(pkg, now))
    /\ \A k \in DOMAIN presentation.slides :
         /\ \A i \in 1..(Len(presentation.slides[k].elements) - 1) :
              IssueIds([presentation EXCEPT !.slides[k].elements = Swapped(@, i)])
                = IssueIds(presentation)
         /\ \A i \in DOMAIN presentation.slides[k].elements :
              LET gone == presentation.slides[k].elements[i].id
                  others == [presentation EXCEPT !.slides[k].elements = Without(@, i)]
                  found == collectedIssues(presentation)
              IN \A n \in DOMAIN found :
                   (/\ found[n].elementId # NoElem
                    /\ found[n].elementId # gone
                    /\ found[n].id.e1 # gone
                    /\ found[n].id.e2 # gone)
                   => found[n].id \in IssueIds(others)

(***************************************************************************)
(* Properties of the generated document                                     *)
(***************************************************************************)
\* number of entries of s equal to v
Occurrences(s, v) == Cardinality({n \in DOMAIN s : s[n] = v})

\* the positions in slide.elements of the structure nodes of a Part node
NodePositions(part) == [n \in DOMAIN part.kids |-> part.kids[n].pos]

\* C7 (LibrarySpec): the Part node of every slide holds exactly one
\* structure node for every element that is not decorative, in render
\* order, and none for a decorative element
C7_OneNodePerElement ==
  pdf.saved =>
    /\ Len(pdf.structureTree) = Len(presentation.slides)
    /\ \A k \in DOMAIN presentation.slides :
         LET slide == presentation.slides[k]
             part == pdf.structureTree[k]
             Tagged(i) == ~slide.elements[i].isDecorative
         IN /\ part.role = "Part"
            /\ \A i \in DOMAIN slide.elements :
                 Occurrences(NodePositions(part), i)
                   = IF slide.elements[i].isDecorative THEN 0 ELSE 1
            /\ NodePositions(part) = SelectSeq(part.rendered, Tagged)

\* position in the reading order of the first entry naming the element
\* at position i of the slide, 0 if none names it
ListedAt(slide, i) ==
  LET hits == {k \in DOMAIN slide.readingOrder :
                 slide.readingOrder[k] = slide.elements[i].id}
  IN IF hits = {} THEN 0 ELSE CHOOSE k \in hits : \A h \in hits : k <= h

\* C8 (Spec): whatever the reading order of a slide holds, the elements
\* rendered are all elements of the slide, each once: the listed ones in the
\* order of the list, then the unlisted ones in the order of the slide
C8_EachElementOnce ==
  pdf.saved =>
    \A k \in DOMAIN presentation.slides :
      LET slide == presentation.slides[k]
          rendered == pdf.structureTree[k].rendered
      IN /\ \A i \in DOMAIN slide.elements : Occurrences(rendered, i) = 1
         /\ \A m, n \in DOMAIN rendered :
              m < n =>
                LET a == ListedAt(slide, rendered[m])
                    b == ListedAt(slide, rendered[n])
                IN \/ a # 0 /\ b = 0
                   \/ a # 0 /\ b # 0 /\ a <= b
                   \/ a = 0 /\ b = 0 /\ rendered[m] <= rendered[n]

\* C9 (LibrarySpec): the title and the language of the model are the title
\* and the language of the generated document, however the generator was
\* constructed, and the title is the documentTitle of the report
C9_MetadataVerbatim ==
  /\ pdf.saved =>
       /\ Truthy(presentation.metadata.title) =>
            pdf.metadata.title = presentation.metadata.title
       /\ Truthy(presentation.metadata.language) =>
            pdf.metadata.language = presentation.metadata.language
  /\ (pc \in {"validated", "revalidated"} /\ Truthy(presentation.metadata.title)) =>
       report.documentTitle = presentation.metadata.title

ParsedAt(t) ==
  [parse(pkg, t) EXCEPT
     !.metadata.title = IF Truthy(req.customTitle) THEN req.customTitle ELSE @,
     !.metadata.language = OrElse(req.language, "de")]

\* the job asked for enhancement and found the collaborator unreachable
Unreachable == req.useAI /\ ollamaAvailable = "no"

\* C11: when the collaborator is unreachable, enhance leaves the parsed
\* presentation as it is, records no enhancement and counts none, and the
\* job goes on: its next step validates the unenhanced presentation, and
\* the step after that writes the document of it
C11_UnreachableTolerated ==
  /\ [][(pc = "parsed" /\ req.useAI /\ pc' # "parsed" /\ ollamaAvailable' = "no") =>
          /\ pc' = "enhanced"
          /\ presentation' = presentation
          /\ response' = response]_vars
  /\ []((Unreachable /\ pc \in {"enhanced", "validated", "generated"}) =>
          /\ \E t \in 0..now : presentation = ParsedAt(t)
          /\ ai.enhancements = <<>>
          /\ ai.altTextsGenerated = 0
          /\ ai.titlesGenerated = 0)
  /\ [][(Unreachable /\ pc = "enhanced") =>
          \/ pc' = "enhanced"
          \/ /\ report' = validate(presentation, now)
             /\ presentation' = presentation
             /\ \/ pc' = "validated"
                \/ req.validateOnly /\ pc' = "done" /\ response'.success]_vars
  /\ [][(Unreachable /\ pc = "validated") =>
          \/ pc' = "validated"
          \/ /\ pc' = "generated"
             /\ presentation' = presentation
             /\ pdf' = generate(RouteGeneratorOptions(presentation), presentation)
             /\ files'.download]_vars

\* a document generated from an unenhanced presentation with pictures
\* lacking alt text, the collaborator being unreachable
C11_Witness ==
  /\ Unreachable
  /\ pc = "generated"
  /\ pdf.saved
  /\ ai.enhancements = <<>>
  /\ Reported("missing_alt_text", "error", 0) > 0

\* the elements the route's enhancer asks an alt text for on the slide
RouteToProcess(slide) ==
  imagesToProcess(slide, RouteEnhancerOptions.maxImagesPerSlide)

\* C12: for the slide the enhancer is about to work on and whatever the
\* collaborator answers: an element whose alt-text call fails keeps its alt
\* text, its altTextStatus and its issues and gets no enhancement; only
\* answered calls are counted; a failed title call leaves title, elements
\* and issues of the slide alone and counts no title; and when every call
\* fails the slide is as before and nothing is recorded
C12_FailedCallSkipped ==
  pc = "enhancing" =>
    LET slide == presentation.slides[ai.idx]
        toProcess == RouteToProcess(slide)
    IN \A altAnswers \in [DOMAIN toProcess -> AltAnswers],
          titleAnswer \in TitleAnswers,
          structureAnswer \in OrderAnswers(slide) :
         LET result == enhanceSlide(slide, RouteEnhancerOptions, ai.features,
                                    altAnswers, titleAnswer, <<>>, structureAnswer)
             shift == Len(result.slide.elements) - Len(slide.elements)
             Answered(k) == altAnswers[k] \notin {Fail, ""}
         IN /\ \A k \in DOMAIN toProcess :
                 altAnswers[k] = Fail =>
                   LET before == slide.elements[toProcess[k]]
                       after == result.slide.elements[toProcess[k] + shift]
                   IN /\ after.altText = before.altText
                      /\ after.altTextStatus = before.altTextStatus
                      /\ after.issues = before.issues
                      /\ \A n \in DOMAIN result.enhancements :
                           result.enhancements[n].elementId # before.id
            /\ result.altTextsGenerated
                 <= Cardinality({k \in DOMAIN toProcess : Answered(k)})
            /\ titleAnswer = Fail =>
                 /\ shift = 0
                 /\ result.titlesGenerated = 0
                 /\ result.slide.issues = slide.issues
            /\ (/\ \A k \in DOMAIN toProcess : altAnswers[k] = Fail
                /\ titleAnswer = Fail
                /\ structureAnswer = <<>>) =>
                 /\ result.slide = slide
                 /\ result.enhancements = <<>>

\* C13 (EnhancerSpec): for every slide the enhancer has worked on, the
\* calls made to the collaborator are at most maxImagesPerSlide (5) for alt
\* texts, however many images of the slide lack one, and at most one each
\* for the title, the reading order and the structure: at most 8 whatever
\* the slide holds
C13_CallsCapped ==
  \A k \in DOMAIN ai.calls :
    /\ ai.altCalls[k] <= AllEnhancements.maxImagesPerSlide
    /\ AllEnhancements.maxImagesPerSlide = 5
    /\ ai.calls[k] - ai.altCalls[k] <= 3
    /\ ai.calls[k] <= 8

\* a slide with six images without alt text: five alt-text calls, a title
\* call, an order call and a structure call
C13_Witness ==
  /\ pc = "enhanced"
  /\ Len(ai.calls) = 1
  /\ Len(SelectSeq(parse(pkg, 0).slides[1].elements, NeedsAltText)) = 6
  /\ ai.altCalls[1] = 5
  /\ ai.calls[1] = 8

(***************************************************************************)
(* Properties of the parser (LibrarySpec)                                   *)
(***************************************************************************)
\* a package with its required parts: a readable zip container holding the
\* presentation part and every slide part the slide list declares
WellFormed(p) ==
  /\ p.validZip
  /\ p.hasPresentationXml
  /\ \A k \in DOMAIN p.sldIdLst :
       p.sldIdLst[k] \in DOMAIN p.slides /\ p.slides[p.sldIdLst[k]].exists

\* C14: parse returns a Presentation only for a package that is a valid
\* zip container and holds the presentation part and every declared slide
\* part; for any other package it fails
C14_MalformedRejected ==
  pc \in {"parsed", "validated", "revalidated"} => WellFormed(pkg)

\* the declared slide parts that exist, in the order of the slide list
DeclaredParts(p) ==
  LET Exists(n) == n \in DOMAIN p.slides /\ p.slides[n].exists
  IN SelectSeq(p.sldIdLst, Exists)

\* C15: the slides of a parsed Presentation are numbered 1, 2, ... n without
\* a gap, and they are the slides the slide list declares, in the order of
\* the list, also when the list declares the parts in another order than
\* their numbers and when a declared part is missing
C15_SlidesContiguous ==
  pc \in {"parsed", "validated", "revalidated"} =>
    /\ \A k \in DOMAIN presentation.slides : presentation.slides[k].number = k
    /\ pkg.hasPresentationXml =>
         /\ Len(presentation.slides) = Len(DeclaredParts(pkg))
         /\ \A k \in DOMAIN presentation.slides :
              \E t \in 0..now :
                presentation.slides[k].elements =
                  parseSlide(pkg.slides[DeclaredParts(pkg)[k]].nodes, k, t).elements

(***************************************************************************)
(* Properties of the enhanced Presentation (EnhancerSpec)                   *)
(***************************************************************************)
\* the ids of the elements of a slide
ElementIds(slide) == {slide.elements[i].id : i \in DOMAIN slide.elements}

\* C16: after parse and after enhance with title generation, reading-order
\* verification and structure analysis, every id in the reading order of a
\* slide is the id of an element of the slide
C16_OrderRefersToElements ==
  \A k \in DOMAIN presentation.slides :
    LET slide == presentation.slides[k]
    IN \A n \in DOMAIN slide.readingOrder :
         slide.readingOrder[n] \in ElementIds(slide)

\* a slide that got a generated title and then a reading order from the
\* collaborator that differs from the one of the parser
C16_Witness ==
  /\ pc = "enhanced"
  /\ \E k \in DOMAIN presentation.slides :
       LET slide == presentation.slides[k]
       IN /\ slide.elements[1].id = [src |-> "generated-title", n |-> slide.number]
          /\ slide.readingOrderConfidence \in {Literal("0.9"), Literal("0.95")}
          /\ slide.readingOrder[1] # slide.elements[1].id
          /\ Len(slide.readingOrder) = Len(slide.elements)

\* C17 (Spec): at every point of a job the stats of the presentation are
\* the stats computed from its slides, and the stats of the report are the
\* stats of the slides that were validated
C17_StatsDerivable ==
  /\ presentation.stats = calculateStats(presentation.slides)
  /\ pc \in {"validated", "generated"} =>
       report.stats = calculateStats(presentation.slides)

(***************************************************************************)
(* Properties of jobs running side by side (Spec)                           *)
(***************************************************************************)
\* C18: no step of another job writes a value this job reads: when the job
\* asks whether the collaborator is available, the answer is that of its
\* own probe and not one another job has left in the service, so the job
\* enhances, or not, as it would running alone
C18_NoSharedState ==
  [][(pc = "parsed" /\ req.useAI /\ pc' \in {"enhancing", "enhanced"})
       => ollamaAvailable = "unknown"]_vars

\* C19: a job that has ended with an error response has left no document
\* in the public download directory
C19_NoOutputOnError ==
  (pc = "done" /\ ~response.success) => ~files.download

(***************************************************************************)
(* Properties of the text reports (ValidatorSpec)                           *)
(***************************************************************************)
\* the lines of a kind in a text report
LinesOf(text, kind) ==
  LET OfKind(line) == line.kind = kind
  IN SelectSeq(text, OfKind)

\* the text report says what the structured report r says: the error and
\* warning counts of the summary (or that there is no issue, when the report
\* has none), one entry for every issue of the report, in its order, and
\* the conformance verdict (a text without issues states the best one)
TextAgrees(text, r) ==
  LET bullets == LinesOf(text, "bullet")
  IN /\ IF r.issues = <<>>
        THEN LinesOf(text, "no-issues") # <<>>
        ELSE /\ LinesOf(text, "no-issues") = <<>>
             /\ \E n \in DOMAIN text :
                  /\ text[n].kind = "found"
                  /\ text[n].n = r.summary.errors
                  /\ text[n].m = r.summary.warnings
     /\ Len(bullets) = Len(r.issues)
     /\ \A i \in DOMAIN r.issues :
          \E n \in DOMAIN bullets :
            /\ bullets[n].text = r.issues[i].message.text
            /\ bullets[n].arg = r.issues[i].message.arg
     /\ \/ r.issues = <<>> /\ r.conformance.wcagLevel = "AAA"
        \/ \E n \in DOMAIN text :
             text[n].kind = "verdict" /\ text[n].text = r.conformance.wcagLevel

\* C20: the two text reports of a validation say what its structured report
\* says: the same counts, an entry for every deduplicated issue and the
\* same conformance verdict
C20_TextMatchesReport ==
  pc = "validated" =>
    /\ TextAgrees(report.reportText, report)
    /\ TextAgrees(report.reportTextDE, report)

(***************************************************************************)
(* Properties of the validator's checks (LibrarySpec)                       *)
(***************************************************************************)
\* number of issues of the report of a type and severity for an element of
\* a slide
ReportedFor(type, severity, slideNumber, elementId) ==
  Cardinality({k \in DOMAIN report.issues :
                 /\ report.issues[k].type = type
                 /\ report.issues[k].severity = severity
                 /\ report.issues[k].slideNumber = slideNumber
                 /\ report.issues[k].elementId = elementId})

\* number of issues of the report of a type for an element, of any severity
ReportedOfType(type, slideNumber, elementId) ==
  Cardinality({k \in DOMAIN report.issues :
                 /\ report.issues[k].type = type
                 /\ report.issues[k].slideNumber = slideNumber
                 /\ report.issues[k].elementId = elementId})

\* the alt text is low-quality: it ends in an image file extension, is a
\* generic one-word label or has fewer than 2 words
LowQuality(altText) ==
  \/ EndsInImageExtension(Trim(Lower(altText)))
  \/ GenericLabel(Trim(Lower(altText)))
  \/ WordCount(Trim(Lower(altText))) < 2

\* C21: for each image, chart or SmartArt element of a validated slide the
\* report holds nothing about its alt text when the element is decorative,
\* one missing_alt_text error and nothing else when its alt text is missing
\* or blank, one insufficient_alt_text warning and nothing else when the alt
\* text is low-quality, and nothing otherwise
C21_AltTextFindings ==
  pc \in {"validated", "revalidated"} =>
    \A k \in DOMAIN presentation.slides :
      \A i \in DOMAIN presentation.slides[k].elements :
        LET e == presentation.slides[k].elements[i]
            n == presentation.slides[k].number
            missing == ReportedOfType("missing_alt_text", n, e.id)
            insufficient == ReportedOfType("insufficient_alt_text", n, e.id)
        IN e.type \in {"image", "chart", "smartart"} =>
             /\ missing = ReportedFor("missing_alt_text", "error", n, e.id)
             /\ insufficient = ReportedFor("insufficient_alt_text", "warning", n, e.id)
             /\ IF e.isDecorative THEN missing = 0 /\ insufficient = 0
                ELSE IF BlankText(e.altText) THEN missing = 1 /\ insufficient = 0
                ELSE IF LowQuality(e.altText) THEN missing = 0 /\ insufficient = 1
                ELSE missing = 0 /\ insufficient = 0

(***************************************************************************)
(* Properties of the reading order (LibrarySpec)                            *)
(***************************************************************************)
\* the double nearest to h hundredths, as the literal h/100 denotes it
Hundredths(h) ==
  CASE h = 100 -> Literal("1.0")
    [] h = 90 -> Literal("0.9")
    [] h = 80 -> Double(214748364, 214748368)     \* 0x3FE999999999999A
    [] h = 70 -> Literal("0.7")
    [] h = 60 -> Double(161061273, 161061272)     \* 0x3FE3333333333333
    [] h = 50 -> Double(134217728, 0)             \* 0x3FE0000000000000
    [] h = 40 -> Double(107374182, 107374184)     \* 0x3FD999999999999A
    [] OTHER -> Literal("0.3")

\* the value of the confidence formula for the elements of a slide, in
\* hundredths
DecimalConfidence(elements) ==
  LET overlap == \E i, j \in DOMAIN elements :
                   i < j /\ Overlap(elements[i].position, elements[j].position)
      grouped == \E i \in DOMAIN elements : elements[i].isGrouped
      bands == {RoundDiv(elements[i].position.y, 20) : i \in DOMAIN elements}
  IN Max(30, 100 - (IF overlap THEN 20 ELSE 0) - (IF grouped THEN 10 ELSE 0)
                 - (IF 2 * Cardinality(bands) < Len(elements) THEN 20 ELSE 0))

\* C22: the confidence of every parsed slide is the value of max(0.3, 1.0 -
\* 0.2 [overlap] - 0.1 [grouped] - 0.2 [fewer bands than half the elements])
\* computed in exact decimal arithmetic, and lies between 0.3 and 1
C22_ConfidenceFormula ==
  pc = "parsed" =>
    \A k \in DOMAIN presentation.slides :
      LET slide == presentation.slides[k]
      IN /\ slide.readingOrderConfidence = Hundredths(DecimalConfidence(slide.elements))
         /\ ~DoubleLess(slide.readingOrderConfidence, Literal("0.3"))
         /\ ~DoubleLess(Literal("1.0"), slide.readingOrderConfidence)

\* order lists the ids of the elements, each as often as the elements
\* carry it
PermutationOfIds(order, elements) ==
  /\ Len(order) = Len(elements)
  /\ \A i \in DOMAIN elements :
       Cardinality({k \in DOMAIN order : order[k] = elements[i].id})
         = Cardinality({j \in DOMAIN elements : elements[j].id = elements[i].id})

\* the id of a comes before the id of b wherever the two appear in order
Precedes(order, a, b) ==
  \A i, j \in DOMAIN order : (order[i] = a.id /\ order[j] = b.id) => i < j

\* C23: the reading order of a parsed slide is a permutation of the ids of
\* its elements; every title comes before every other element, every
\* subtitle before every element that is neither title nor subtitle; of two
\* other elements the one more than 20px higher comes first, and of two
\* within 20px of each other the one further left
C23_ReadingOrderSorted ==
  pc = "parsed" =>
    \A k \in DOMAIN presentation.slides :
      LET slide == presentation.slides[k]
          order == slide.readingOrder
      IN /\ PermutationOfIds(order, slide.elements)
         /\ \A i, j \in DOMAIN slide.elements :
              LET a == slide.elements[i]
                  b == slide.elements[j]
              IN a.id # b.id =>
                   /\ (a.type = "title" /\ b.type # "title") => Precedes(order, a, b)
                   /\ (a.type = "subtitle" /\ b.type \notin {"title", "subtitle"})
                        => Precedes(order, a, b)
                   /\ (/\ a.type \notin {"title", "subtitle"}
                       /\ b.type \notin {"title", "subtitle"}
                       /\ b.position.y - a.position.y > 20) => Precedes(order, a, b)
                   /\ (/\ a.type \notin {"title", "subtitle"}
                       /\ b.type \notin {"title", "subtitle"}
                       /\ Abs(a.position.y - b.position.y) <= 20
                       /\ a.position.x < b.position.x) => Precedes(order, a, b)

(***************************************************************************)
(* Properties of the pseudo-table check (LibrarySpec)                       *)
(***************************************************************************)
\* the row band of a vertical position: the nearest multiple of 30px
BandOf(y) == ((2 * y + 30) \div 60) * 30

\* the text boxes of the slide form a grid: at least 4 of them, in at least
\* 2 row bands, every band holding the same number, at least 2
GridOfTextBoxes(slide) ==
  LET boxes == {i \in DOMAIN slide.elements : slide.elements[i].type = "textbox"}
      bands == {BandOf(slide.elements[i].position.y) : i \in boxes}
      InBand(b) == {i \in boxes : BandOf(slide.elements[i].position.y) = b}
  IN /\ Cardinality(boxes) >= 4
     /\ Cardinality(bands) >= 2
     /\ \A b, c \in bands : Cardinality(InBand(b)) = Cardinality(InBand(c))
     /\ \A b \in bands : Cardinality(InBand(b)) >= 2

\* the ids of the elements of the k-th slide that have a Table node in the
\* document
TableNodes(k) ==
  {pdf.structureTree[k].kids[n].id :
     n \in {m \in DOMAIN pdf.structureTree[k].kids :
              pdf.structureTree[k].kids[m].role = "Table"}}

\* C24: a validated slide has a pseudo_table finding exactly when its text
\* boxes form a grid; every such finding is a warning; the parser's and the
\* validator's check decide alike; the text boxes stay text boxes in the
\* presentation, and none of them becomes a Table of the document
C24_PseudoTableFindings ==
  /\ pc \in {"validated", "revalidated"} =>
       /\ \A k \in DOMAIN presentation.slides :
            LET slide == presentation.slides[k]
            IN /\ (\E i \in DOMAIN report.issues :
                     /\ report.issues[i].type = "pseudo_table"
                     /\ report.issues[i].slideNumber = slide.number)
                    <=> GridOfTextBoxes(slide)
               /\ detectPseudoTable(SelectSeq(slide.elements, IsTextbox))
                    <=> validatePseudoTables(slide) # <<>>
               /\ (\E i \in DOMAIN slide.issues : slide.issues[i].type = "pseudo_table")
                    <=> validatePseudoTables(slide) # <<>>
       /\ \A i \in DOMAIN report.issues :
            report.issues[i].type = "pseudo_table" => report.issues[i].severity = "warning"
       /\ \E t \in 0..now : presentation = parse(pkg, t)
  /\ (pc # "idle" /\ pdf.saved /\ Len(pdf.structureTree) = Len(presentation.slides)) =>
       \A k \in DOMAIN presentation.slides :
         \A i \in DOMAIN presentation.slides[k].elements :
           presentation.slides[k].elements[i].type = "textbox" =>
             presentation.slides[k].elements[i].id
               \notin TableNodes(k)

\* a validated presentation with a slide whose text boxes form a grid and
\* carry a pseudo_table warning, and a document generated from it
C24_Witness ==
  /\ pc = "validated" /\ pdf.saved
  /\ \E k \in DOMAIN presentation.slides :
       /\ GridOfTextBoxes(presentation.slides[k])
       /\ \E i \in DOMAIN report.issues :
            /\ report.issues[i].type = "pseudo_table"
            /\ report.issues[i].severity = "warning"
            /\ report.issues[i].slideNumber = presentation.slides[k].number

(***************************************************************************)
(* Properties of the parsed alt text (LibrarySpec)                          *)
(***************************************************************************)
\* the description attribute is there and holds nothing but whitespace
EmptyDescription(node) == node.descr # Undef /\ Trim(node.descr) = ""

\* the elements and background elements of a slide
AllElements(slide) == slide.elements \o slide.backgroundElements

\* C25: every element parsed from a shape, picture, chart or SmartArt whose
\* description attribute is empty or whitespace only, of any length, is
\* decorative: isDecorative is true and altTextStatus is "decorative"
C25_BlankDescriptionDecorative ==
  pc = "parsed" =>
    \A k \in DOMAIN presentation.slides :
      LET slide == presentation.slides[k]
          nodes == pkg.slides[slide.number].nodes
          all == AllElements(slide)
      IN \A n \in DOMAIN nodes :
           (/\ nodes[n].tag \in {"sp", "pic", "chart", "smartart"}
            /\ nodes[n].idAttr # 0
            /\ EmptyDescription(nodes[n])) =>
             \A i \in DOMAIN all :
               all[i].id = AttrId(nodes[n].idAttr) =>
                 all[i].isDecorative /\ all[i].altTextStatus = "decorative"

(***************************************************************************)
(* Properties of the link check (LibrarySpec)                               *)
(***************************************************************************)
\* the non-descriptive phrases: "here", "click here", "more", "details" and
\* their equivalents
NonDescriptive(text) ==
  Lower(text) \in {"here", "click here", "more", "read more", "details", "link",
                   "hier", "klick", "mehr", "weiterlesen"}

\* C26: in the report of a validated presentation every element carrying a
\* hyperlink has one unclear_link_text warning when its trimmed text is one
\* of the non-descriptive phrases, whatever its case, and none otherwise
C26_UnclearLinkText ==
  pc \in {"validated", "revalidated"} =>
    \A k \in DOMAIN presentation.slides :
      \A i \in DOMAIN presentation.slides[k].elements :
        LET e == presentation.slides[k].elements[i]
            n == presentation.slides[k].number
            text == IF e.text = Undef THEN "" ELSE Trim(e.text)
        IN e.hyperlink =>
             /\ ReportedOfType("unclear_link_text", n, e.id)
                  = ReportedFor("unclear_link_text", "warning", n, e.id)
             /\ ReportedOfType("unclear_link_text", n, e.id)
                  = IF NonDescriptive(text) THEN 1 ELSE 0

(***************************************************************************)
(* Properties of the severities (LibrarySpec)                               *)
(***************************************************************************)
\* C27: in every report all issues of one type carry one severity; every
\* missing_title is a warning, every missing_alt_text an error and every
\* pseudo_table a warning
C27_SeverityPerType ==
  pc \in {"validated", "revalidated"} =>
    /\ \A i, j \in DOMAIN report.issues :
         report.issues[i].type = report.issues[j].type
           => report.issues[i].severity = report.issues[j].severity
    /\ \A i \in DOMAIN report.issues :
         /\ report.issues[i].type = "missing_title"
              => report.issues[i].severity = "warning"
         /\ report.issues[i].type = "missing_alt_text"
              => report.issues[i].severity = "error"
         /\ report.issues[i].type = "pseudo_table"
              => report.issues[i].severity = "warning"

(***************************************************************************)
(* Properties of the structure nodes (LibrarySpec)                          *)
(***************************************************************************)
\* the role the type of an element gives its structure node; a SmartArt
\* without alt text is a list only with structured list data, and the
\* elements of the parser carry none
RoleOfType(element) ==
  CASE element.type = "title" -> "H1"
    [] element.type = "subtitle" -> "H2"
    [] element.type \in {"paragraph", "body", "textbox"} -> "P"
    [] element.type = "list" -> "L"
    [] element.type = "table" -> "Table"
    [] element.type \in {"image", "chart"} -> "Figure"
    [] element.type = "smartart" -> "Figure"
    [] OTHER -> "P"

\* the node of a table has one TR per row, and a TH or TD per cell of the
\* row with the text of the cell
TableRowsTagged(node, element) ==
  /\ Len(node.kids) = Len(element.tableData.cells)
  /\ \A r \in DOMAIN node.kids :
       /\ node.kids[r].role = "TR"
       /\ Len(node.kids[r].kids) = Len(element.tableData.cells[r])
       /\ \A c \in DOMAIN node.kids[r].kids :
            /\ node.kids[r].kids[c].role \in {"TH", "TD"}
            /\ node.kids[r].kids[c].actualText = element.tableData.cells[r][c].content

\* C28: every structure node of a generated document has the role its
\* element's type gives it: H1, H2, P, L, Table with its rows and cells,
\* Figure with the alt text of the image or chart verbatim; a SmartArt with
\* alt text is a Figure, one without it and without list data a Figure too
C28_RoleByType ==
  (pc # "idle" /\ pdf.saved /\ Len(pdf.structureTree) = Len(presentation.slides)) =>
    \A k \in DOMAIN presentation.slides :
      \A n \in DOMAIN pdf.structureTree[k].kids :
        LET node == pdf.structureTree[k].kids[n]
            element == presentation.slides[k].elements[node.pos]
        IN /\ node.role = RoleOfType(element)
           /\ element.type = "table" => TableRowsTagged(node, element)
           /\ (element.type \in {"image", "chart", "smartart"} /\ Truthy(element.altText))
                => node.altText = element.altText

(***************************************************************************)
(* Properties of validation after enhancement (Spec)                        *)
(***************************************************************************)
\* C29: a report made after the enhancement holds no missing_alt_text issue
\* for an element whose alt text the enhancer has filled, and no
\* missing_title issue for a slide whose title it has generated
C29_FixedStaysFixed ==
  pc \in {"validated", "generated"} =>
    \A e \in DOMAIN ai.enhancements :
      \A i \in DOMAIN report.issues :
        /\ ~(/\ ai.enhancements[e].type = "alt_text"
             /\ report.issues[i].type = "missing_alt_text"
             /\ report.issues[i].slideNumber = ai.enhancements[e].slideNumber
             /\ report.issues[i].elementId = ai.enhancements[e].elementId)
        /\ ~(/\ ai.enhancements[e].type = "title"
             /\ report.issues[i].type = "missing_title"
             /\ report.issues[i].slideNumber = ai.enhancements[e].slideNumber)

(***************************************************************************)
(* Properties of the rewritten reading order (EnhancerSpec)                 *)
(***************************************************************************)
\* C30: after the enhancement, whatever order the collaborator suggested,
\* the reading order of every slide lists the id of every element of the
\* slide exactly once
C30_OrderStaysPermutation ==
  pc = "enhanced" =>
    \A k \in DOMAIN presentation.slides :
      PermutationOfIds(presentation.slides[k].readingOrder,
                       presentation.slides[k].elements)

====
